---- MODULE Spec2Model ----
(***************************************************************************)
(* The table-driven C++ tokenizer of mkdoc-tokenizer                       *)
(* (src/mkdoc-tokenizer/tokenizer.cxx, tokenizer.hxx) and the loop of      *)
(* mkdoc_tokenizer_app::main that drives it.                               *)
(*                                                                         *)
(* A character is its code point (an integer), a text is a sequence of     *)
(* code points.  One call of token_iterator::operator++ is one step of the *)
(* state machine; the loop inside it is the recursive operator Loop.       *)
(***************************************************************************)
EXTENDS Integers, Sequences, FiniteSets, TLC

(***************************************************************************)
(* Enumerations of tokenizer.hxx, in declaration order.                    *)
(***************************************************************************)
char_type == <<
   "amp", "aster", "bksl", "caret", "colon", "digit", "dot", "eol", "equal",
   "excl", "fwsl", "gt", "inval", "lt", "ltr", "ltre", "minus", "perc",
   "pipe", "plus", "pound", "punct", "qdbl", "qsng", "tilde", "whsp"
>>

tokenizer_state == <<
   "amp", "amp2", "arw", "arwa", "astr", "bksl", "bsac", "bol", "cl", "cle",
   "cln", "cln2", "cmm", "cmms", "cmmz", "cms", "cpp", "crt", "crt2", "dot",
   "dot2", "dot3", "dota", "eql", "excl", "fwsl", "gt", "gt2", "id", "lt",
   "lt2", "mns", "mns2", "num", "nume", "nums", "opeq", "perc", "pip",
   "pip2", "pls", "pls2", "punc", "sl", "sle", "tild", "whsp"
>>

tokenizer_action == <<
   "accumulate", "error", "pop_state", "pop_state_and_accumulate_backslash",
   "push_state", "yield_and_accumulate", "yield_and_ignore"
>>

token_type == <<
   "ampersand", "assign", "asterisk", "bracel", "bracer", "bracketl",
   "bracketr", "charlit", "comment", "colon", "comma", "cpp_def", "cpp_flow",
   "cpp_incl", "cpp_other", "dbl_colon", "ellipsis", "error", "document",
   "dot", "end", "identifier", "minus", "number", "op_add_assign",
   "op_bit_and", "op_bit_and_assign", "op_bit_not", "op_bit_or",
   "op_bit_or_assign", "op_bit_xor", "op_bit_xor_assign", "op_decr",
   "op_deref_member_access", "op_div", "op_div_assign", "op_incr",
   "op_log_and", "op_log_not", "op_log_or", "op_log_xor", "op_lsh",
   "op_lsh_assign", "op_mod", "op_mod_assign", "op_mult_assign",
   "op_ptr_to_member_deref_val", "op_ptr_to_member_deref_ptr",
   "op_rel_equal", "op_rel_noteq", "op_rel_gt", "op_rel_gteq", "op_rel_lt",
   "op_rel_lteq", "op_rsh", "op_rsh_assign", "op_sub_assign", "parenl",
   "parenr", "plus", "qmark", "semicolon", "stringlit", "whitesp"
>>

Range(seq) == {seq[i] : i \in DOMAIN seq}

CharTypes == Range(char_type)

States == Range(tokenizer_state)

TokenTypes == Range(token_type)

\* enum_impl::base(): the position of an enumerator, used to index a table.
base(enum, name) == (CHOOSE i \in DOMAIN enum : enum[i] = name) - 1

(***************************************************************************)
(* smc_chtMap: character type of each of the 128 ASCII code points.        *)
(***************************************************************************)
smc_chtMap == <<
   "inval", "inval", "inval", "inval", "inval", "inval", "inval", "inval",
   "inval", "whsp", "eol", "whsp", "whsp", "whsp", "inval", "inval",
   "inval", "inval", "inval", "inval", "inval", "inval", "inval", "inval",
   "inval", "inval", "inval", "inval", "inval", "inval", "inval", "inval",
   "whsp", "excl", "qdbl", "pound", "inval", "perc", "amp", "qsng",
   "punct", "punct", "aster", "plus", "punct", "minus", "dot", "fwsl",
   "digit", "digit", "digit", "digit", "digit", "digit", "digit", "digit",
   "digit", "digit", "colon", "punct", "lt", "equal", "gt", "punct",
   "inval", "ltr", "ltr", "ltr", "ltr", "ltre", "ltr", "ltr",
   "ltr", "ltr", "ltr", "ltr", "ltr", "ltr", "ltr", "ltr",
   "ltr", "ltr", "ltr", "ltr", "ltr", "ltr", "ltr", "ltr",
   "ltr", "ltr", "ltr", "punct", "bksl", "punct", "caret", "ltr",
   "inval", "ltr", "ltr", "ltr", "ltr", "ltre", "ltr", "ltr",
   "ltr", "ltr", "ltr", "ltr", "ltr", "ltr", "ltr", "ltr",
   "ltr", "ltr", "ltr", "ltr", "ltr", "ltr", "ltr", "ltr",
   "ltr", "ltr", "ltr", "punct", "pipe", "punct", "tilde", "inval"
>>

(***************************************************************************)
(* smc_evos: evolution (next state, action) per (state, character type).   *)
(***************************************************************************)
AC(next) == [stateNext |-> next, actionNext |-> "accumulate"]

ER == [stateNext |-> "whsp", actionNext |-> "error"]

PS(next) == [stateNext |-> next, actionNext |-> "push_state"]

PP(next) == [stateNext |-> next, actionNext |-> "pop_state"]

PB(next) == [stateNext |-> next, actionNext |-> "pop_state_and_accumulate_backslash"]

YA(next) == [stateNext |-> next, actionNext |-> "yield_and_accumulate"]

YI(next) == [stateNext |-> next, actionNext |-> "yield_and_ignore"]

\*             amp   aster bksl  caret colon digit dot   eol   equal excl  fwsl  gt    inval lt    ltr   ltre  minus perc  pipe  plus  pound punct qdbl  qsng  tilde whsp
smc_evos == <<
   (* amp  *) <<AC("amp2"),YA("astr"),PS("bksl"),YA("crt"),YA("cln"),YA("num"),YA("dot"),YI("bol"),AC("opeq"),YA("excl"),YA("fwsl"),YA("gt"),ER,YA("lt"),YA("id"),YA("id"),YA("mns"),YA("perc"),YA("pip"),YA("pls"),ER,YA("punc"),YA("sl"),YA("cl"),YA("tild"),YA("whsp")>>,
   (* amp2 *) <<YA("amp"),YA("astr"),PS("bksl"),YA("crt"),YA("cln"),YA("num"),YA("dot"),YI("bol"),YA("eql"),YA("excl"),YA("fwsl"),YA("gt"),ER,YA("lt"),YA("id"),YA("id"),YA("mns"),YA("perc"),YA("pip"),YA("pls"),ER,YA("punc"),YA("sl"),YA("cl"),YA("tild"),YA("whsp")>>,
   (* arw  *) <<YA("amp"),AC("arwa"),PS("bksl"),YA("crt"),YA("cln"),YA("num"),YA("dot"),YI("bol"),YA("eql"),YA("excl"),YA("fwsl"),YA("gt"),ER,YA("lt"),YA("id"),YA("id"),YA("mns"),YA("perc"),YA("pip"),YA("pls"),ER,YA("punc"),YA("sl"),YA("cl"),YA("tild"),YA("whsp")>>,
   (* arwa *) <<YA("amp"),YA("astr"),PS("bksl"),YA("crt"),YA("cln"),YA("num"),YA("dot"),YI("bol"),YA("eql"),YA("excl"),YA("fwsl"),YA("gt"),ER,YA("lt"),YA("id"),YA("id"),YA("mns"),YA("perc"),YA("pip"),YA("pls"),ER,YA("punc"),YA("sl"),YA("cl"),YA("tild"),YA("whsp")>>,
   (* astr *) <<YA("amp"),YA("astr"),PS("bksl"),YA("crt"),YA("cln"),YA("num"),YA("dot"),YI("bol"),AC("opeq"),YA("excl"),YA("fwsl"),YA("gt"),ER,YA("lt"),YA("id"),YA("id"),YA("mns"),YA("perc"),YA("pip"),YA("pls"),ER,YA("punc"),YA("sl"),YA("cl"),YA("tild"),YA("whsp")>>,
   (* bksl *) <<ER,ER,ER,ER,ER,ER,ER,PP("bksl"),ER,ER,ER,ER,ER,ER,ER,ER,ER,ER,ER,ER,ER,ER,ER,ER,ER,ER>>,
   (* bsac *) <<PB("bsac"),PB("bsac"),PB("bsac"),PB("bsac"),PB("bsac"),PB("bsac"),PB("bsac"),PP("bsac"),PB("bsac"),PB("bsac"),PB("bsac"),PB("bsac"),PB("bsac"),PB("bsac"),PB("bsac"),PB("bsac"),PB("bsac"),PB("bsac"),PB("bsac"),PB("bsac"),PB("bsac"),PB("bsac"),PB("bsac"),PB("bsac"),PB("bsac"),PB("bsac")>>,
   (* bol  *) <<YA("amp"),YA("astr"),PS("bksl"),YA("crt"),YA("cln"),YA("num"),YA("dot"),YI("bol"),YA("eql"),YA("excl"),YA("fwsl"),YA("gt"),ER,YA("lt"),YA("id"),YA("id"),YA("mns"),YA("perc"),YA("pip"),YA("pls"),YA("cpp"),YA("punc"),YA("sl"),YA("cl"),YA("tild"),YI("bol")>>,
   (* cl   *) <<AC("cl"),AC("cl"),AC("bsac"),AC("cl"),AC("cl"),AC("cl"),AC("cl"),AC("cl"),AC("cl"),AC("cl"),AC("cl"),AC("cl"),AC("cl"),AC("cl"),AC("cl"),AC("cl"),AC("cl"),AC("cl"),AC("cl"),AC("cl"),AC("cl"),AC("cl"),AC("cl"),AC("cle"),AC("cl"),AC("cl")>>,
   (* cle  *) <<YA("amp"),YA("astr"),PS("bksl"),YA("crt"),YA("cln"),YA("cle"),YA("dot"),YI("bol"),YA("eql"),YA("excl"),YA("fwsl"),YA("gt"),ER,YA("lt"),AC("cle"),AC("cle"),YA("mns"),YA("perc"),YA("pip"),YA("pls"),ER,YA("punc"),YA("sl"),YA("cl"),YA("tild"),YA("whsp")>>,
   (* cln  *) <<YA("amp"),YA("astr"),PS("bksl"),YA("crt"),AC("cln2"),YA("num"),YA("dot"),YI("bol"),YA("eql"),YA("excl"),YA("fwsl"),YA("gt"),ER,YA("lt"),YA("id"),YA("id"),YA("mns"),YA("perc"),YA("pip"),YA("pls"),ER,YA("punc"),YA("sl"),YA("cl"),YA("tild"),YA("whsp")>>,
   (* cln2 *) <<YA("amp"),YA("astr"),PS("bksl"),YA("crt"),YA("cln"),YA("num"),YA("dot"),YI("bol"),YA("eql"),YA("excl"),YA("fwsl"),YA("gt"),ER,YA("lt"),YA("id"),YA("id"),YA("mns"),YA("perc"),YA("pip"),YA("pls"),ER,YA("punc"),YA("sl"),YA("cl"),YA("tild"),YA("whsp")>>,
   (* cmm  *) <<AC("cmm"),AC("cmms"),PS("bksl"),AC("cmm"),AC("cmm"),AC("cmm"),AC("cmm"),AC("cmm"),AC("cmm"),AC("cmm"),AC("cmm"),AC("cmm"),ER,AC("cmm"),AC("cmm"),AC("cmm"),AC("cmm"),AC("cmm"),AC("cmm"),AC("cmm"),AC("cmm"),AC("cmm"),AC("cmm"),AC("cmm"),AC("cmm"),AC("cmm")>>,
   (* cmms *) <<AC("cmm"),AC("cmms"),PS("bksl"),AC("cmm"),AC("cmm"),AC("cmm"),AC("cmm"),AC("cmm"),AC("cmm"),AC("cmm"),AC("cmmz"),AC("cmm"),ER,AC("cmm"),AC("cmm"),AC("cmm"),AC("cmm"),AC("cmm"),AC("cmm"),AC("cmm"),AC("cmm"),AC("cmm"),AC("cmm"),AC("cmm"),AC("cmm"),AC("cmm")>>,
   (* cmmz *) <<YA("amp"),YA("astr"),PS("bksl"),YA("crt"),YA("cln"),YA("num"),YA("dot"),YI("bol"),YA("eql"),YA("excl"),YA("fwsl"),YA("gt"),ER,YA("lt"),YA("id"),YA("id"),YA("mns"),YA("perc"),YA("pip"),YA("pls"),ER,YA("punc"),YA("sl"),YA("cl"),YA("tild"),AC("cmmz")>>,
   (* cms  *) <<AC("cms"),AC("cms"),PS("bksl"),AC("cms"),AC("cms"),AC("cms"),AC("cms"),YI("bol"),AC("cms"),AC("cms"),AC("cms"),AC("cms"),ER,AC("cms"),AC("cms"),AC("cms"),AC("cms"),AC("cms"),AC("cms"),AC("cms"),AC("cms"),AC("cms"),AC("cms"),AC("cms"),AC("cms"),AC("cms")>>,
   (* cpp  *) <<AC("cpp"),AC("cpp"),PS("bksl"),AC("cpp"),AC("cpp"),AC("cpp"),AC("cpp"),YI("bol"),AC("cpp"),AC("cpp"),AC("cpp"),AC("cpp"),ER,AC("cpp"),AC("cpp"),AC("cpp"),AC("cpp"),AC("cpp"),AC("cpp"),AC("cpp"),AC("cpp"),AC("cpp"),AC("cpp"),AC("cpp"),AC("cpp"),AC("cpp")>>,
   (* crt  *) <<YA("amp"),YA("astr"),PS("bksl"),AC("crt2"),YA("cln"),YA("num"),YA("dot"),YI("bol"),AC("opeq"),YA("excl"),YA("fwsl"),YA("gt"),ER,YA("lt"),YA("id"),YA("id"),YA("mns"),YA("perc"),YA("pip"),YA("pls"),ER,YA("punc"),YA("sl"),YA("cl"),YA("tild"),YA("whsp")>>,
   (* crt2 *) <<YA("amp"),YA("astr"),PS("bksl"),YA("crt"),YA("cln"),YA("num"),YA("dot"),YI("bol"),YA("eql"),YA("excl"),YA("fwsl"),YA("gt"),ER,YA("lt"),YA("id"),YA("id"),YA("mns"),YA("perc"),YA("pip"),YA("pls"),ER,YA("punc"),YA("sl"),YA("cl"),YA("tild"),YA("whsp")>>,
   (* dot  *) <<YA("amp"),AC("dota"),PS("bksl"),YA("crt"),YA("cln"),AC("num"),AC("dot2"),YI("bol"),YA("eql"),YA("excl"),YA("fwsl"),YA("gt"),ER,YA("lt"),YA("id"),YA("id"),YA("mns"),YA("perc"),YA("pip"),YA("mns"),ER,YA("punc"),YA("sl"),YA("cl"),YA("tild"),YA("whsp")>>,
   (* dot2 *) <<ER,ER,PS("bksl"),ER,ER,ER,AC("dot3"),ER,ER,ER,ER,ER,ER,ER,ER,ER,ER,ER,ER,ER,ER,ER,ER,ER,ER,ER>>,
   (* dot3 *) <<YA("amp"),YA("astr"),PS("bksl"),YA("crt"),YA("cln"),YA("num"),YA("dot"),YI("bol"),YA("eql"),YA("excl"),YA("fwsl"),YA("gt"),ER,YA("lt"),YA("id"),YA("id"),YA("mns"),YA("perc"),YA("pip"),YA("mns"),ER,YA("punc"),YA("sl"),YA("cl"),YA("tild"),YA("whsp")>>,
   (* dota *) <<YA("amp"),YA("astr"),PS("bksl"),YA("crt"),YA("cln"),YA("num"),YA("num"),YI("bol"),YA("eql"),YA("excl"),YA("fwsl"),YA("gt"),ER,YA("lt"),YA("id"),YA("id"),YA("mns"),YA("perc"),YA("pip"),YA("pls"),ER,YA("punc"),YA("sl"),YA("cl"),YA("tild"),YA("whsp")>>,
   (* eql  *) <<YA("amp"),YA("astr"),PS("bksl"),YA("crt"),YA("cln"),YA("num"),YA("dot"),YI("bol"),AC("opeq"),YA("excl"),YA("fwsl"),YA("gt"),ER,YA("lt"),YA("id"),YA("id"),YA("mns"),YA("perc"),YA("pip"),YA("pls"),ER,YA("punc"),YA("sl"),YA("cl"),YA("tild"),YA("whsp")>>,
   (* excl *) <<YA("amp"),YA("astr"),PS("bksl"),YA("crt"),YA("cln"),YA("num"),YA("dot"),YI("bol"),AC("opeq"),YA("excl"),YA("fwsl"),YA("gt"),ER,YA("lt"),YA("id"),YA("id"),YA("mns"),YA("perc"),YA("pip"),YA("pls"),ER,YA("punc"),YA("sl"),YA("cl"),YA("tild"),YA("whsp")>>,
   (* fwsl *) <<YA("amp"),AC("cmm"),PS("bksl"),YA("crt"),YA("cln"),YA("num"),YA("dot"),YI("bol"),AC("opeq"),YA("excl"),AC("cms"),YA("gt"),ER,YA("lt"),YA("id"),YA("id"),YA("mns"),YA("perc"),YA("pip"),YA("pls"),ER,YA("punc"),YA("sl"),YA("cl"),YA("tild"),YA("whsp")>>,
   (* gt   *) <<YA("amp"),YA("astr"),PS("bksl"),YA("crt"),YA("cln"),YA("num"),YA("dot"),YI("bol"),AC("opeq"),YA("excl"),YA("fwsl"),AC("gt2"),ER,YA("lt"),YA("id"),YA("id"),YA("mns"),YA("perc"),YA("pip"),YA("pls"),ER,YA("punc"),YA("sl"),YA("cl"),YA("tild"),YA("whsp")>>,
   (* gt2  *) <<YA("amp"),YA("astr"),PS("bksl"),YA("crt"),YA("cln"),YA("num"),YA("dot"),YI("bol"),AC("opeq"),YA("excl"),YA("fwsl"),YA("gt"),ER,YA("lt"),YA("id"),YA("id"),YA("mns"),YA("perc"),YA("pip"),YA("pls"),ER,YA("punc"),YA("sl"),YA("cl"),YA("tild"),YA("whsp")>>,
   (* id   *) <<YA("amp"),YA("astr"),PS("bksl"),YA("crt"),YA("cln"),AC("id"),YA("dot"),YI("bol"),YA("eql"),YA("excl"),YA("fwsl"),YA("gt"),ER,YA("lt"),AC("id"),AC("id"),YA("mns"),YA("perc"),YA("pip"),YA("pls"),ER,YA("punc"),YA("sl"),YA("cl"),YA("tild"),YA("whsp")>>,
   (* lt   *) <<YA("amp"),YA("astr"),PS("bksl"),YA("crt"),YA("cln"),YA("num"),YA("dot"),YI("bol"),AC("opeq"),YA("excl"),YA("fwsl"),YA("gt"),ER,AC("lt2"),YA("id"),YA("id"),YA("mns"),YA("perc"),YA("pip"),YA("pls"),ER,YA("punc"),YA("sl"),YA("cl"),YA("tild"),YA("whsp")>>,
   (* lt2  *) <<YA("amp"),YA("astr"),PS("bksl"),YA("crt"),YA("cln"),YA("num"),YA("dot"),YI("bol"),AC("opeq"),YA("excl"),YA("fwsl"),YA("gt"),ER,YA("lt"),YA("id"),YA("id"),YA("mns"),YA("perc"),YA("pip"),YA("pls"),ER,YA("punc"),YA("sl"),YA("cl"),YA("tild"),YA("whsp")>>,
   (* mns  *) <<YA("amp"),YA("astr"),PS("bksl"),YA("crt"),YA("cln"),AC("num"),AC("num"),YI("bol"),AC("opeq"),YA("excl"),YA("fwsl"),AC("arw"),ER,YA("lt"),YA("id"),YA("id"),AC("mns2"),YA("perc"),YA("pip"),YA("pls"),ER,YA("punc"),YA("sl"),YA("cl"),YA("tild"),YA("whsp")>>,
   (* mns2 *) <<YA("amp"),YA("astr"),PS("bksl"),YA("crt"),YA("cln"),YA("num"),YA("num"),YI("bol"),YA("eql"),YA("excl"),YA("fwsl"),YA("gt"),ER,YA("lt"),YA("id"),YA("id"),YA("mns"),YA("perc"),YA("pip"),YA("pls"),ER,YA("punc"),YA("sl"),YA("cl"),YA("tild"),YA("whsp")>>,
   (* num  *) <<YA("amp"),YA("astr"),PS("bksl"),YA("crt"),YA("cln"),AC("num"),AC("num"),YI("bol"),YA("eql"),YA("excl"),YA("fwsl"),YA("gt"),ER,YA("lt"),AC("nums"),AC("nume"),YA("mns"),YA("perc"),YA("pip"),YA("pls"),ER,YA("punc"),YA("sl"),YA("cl"),YA("tild"),YA("whsp")>>,
   (* nume *) <<YA("amp"),YA("astr"),PS("bksl"),YA("crt"),YA("cln"),AC("nums"),YA("dot"),YI("bol"),YA("eql"),YA("excl"),YA("fwsl"),YA("gt"),ER,YA("lt"),AC("nums"),AC("nums"),AC("nums"),YA("perc"),YA("pip"),AC("nums"),ER,YA("punc"),YA("sl"),YA("cl"),YA("tild"),YA("whsp")>>,
   (* nums *) <<YA("amp"),YA("astr"),PS("bksl"),YA("crt"),YA("cln"),AC("nums"),YA("dot"),YI("bol"),YA("eql"),YA("excl"),YA("fwsl"),YA("gt"),ER,YA("lt"),AC("nums"),AC("nums"),YA("mns"),YA("perc"),YA("pip"),YA("pls"),ER,YA("punc"),YA("sl"),YA("cl"),YA("tild"),YA("whsp")>>,
   (* opeq *) <<YA("amp"),YA("astr"),PS("bksl"),YA("crt"),YA("cln"),YA("num"),YA("dot"),YI("bol"),YA("eql"),YA("excl"),YA("fwsl"),YA("gt"),ER,YA("lt"),YA("id"),YA("id"),YA("mns"),YA("perc"),YA("pip"),YA("pls"),ER,YA("punc"),YA("sl"),YA("cl"),YA("tild"),YA("whsp")>>,
   (* perc *) <<YA("amp"),YA("astr"),PS("bksl"),YA("crt"),YA("cln"),YA("num"),YA("dot"),YI("bol"),AC("opeq"),YA("excl"),YA("fwsl"),YA("gt"),ER,YA("lt"),YA("id"),YA("id"),YA("mns"),YA("perc"),YA("pip"),YA("pls"),ER,YA("punc"),YA("sl"),YA("cl"),YA("tild"),YA("whsp")>>,
   (* pip  *) <<YA("amp"),YA("astr"),PS("bksl"),YA("crt"),YA("cln"),YA("num"),YA("dot"),YI("bol"),AC("opeq"),YA("excl"),YA("fwsl"),YA("gt"),ER,YA("lt"),YA("id"),YA("id"),YA("mns"),YA("perc"),AC("pip2"),YA("pls"),ER,YA("punc"),YA("sl"),YA("cl"),YA("tild"),YA("whsp")>>,
   (* pip2 *) <<YA("amp"),YA("astr"),PS("bksl"),YA("crt"),YA("cln"),YA("num"),YA("dot"),YI("bol"),AC("opeq"),YA("excl"),YA("fwsl"),YA("gt"),ER,YA("lt"),YA("id"),YA("id"),YA("mns"),YA("perc"),YA("pip"),YA("pls"),ER,YA("punc"),YA("sl"),YA("cl"),YA("tild"),YA("whsp")>>,
   (* pls  *) <<YA("amp"),YA("astr"),PS("bksl"),YA("crt"),YA("cln"),AC("num"),AC("num"),YI("bol"),AC("opeq"),YA("excl"),YA("fwsl"),YA("gt"),ER,YA("lt"),YA("id"),YA("id"),YA("mns"),YA("perc"),YA("pip"),AC("pls2"),ER,YA("punc"),YA("sl"),YA("cl"),YA("tild"),YA("whsp")>>,
   (* pls2 *) <<YA("amp"),YA("astr"),PS("bksl"),YA("crt"),YA("cln"),YA("num"),YA("num"),YI("bol"),YA("eql"),YA("excl"),YA("fwsl"),YA("gt"),ER,YA("lt"),YA("id"),YA("id"),YA("mns"),YA("perc"),YA("pip"),YA("pls"),ER,YA("punc"),YA("sl"),YA("cl"),YA("tild"),YA("whsp")>>,
   (* punc *) <<YA("amp"),YA("astr"),PS("bksl"),YA("crt"),YA("cln"),YA("num"),YA("dot"),YI("bol"),YA("eql"),YA("excl"),YA("fwsl"),YA("gt"),ER,YA("lt"),YA("id"),YA("id"),YA("mns"),YA("perc"),YA("pip"),YA("pls"),ER,YA("punc"),YA("sl"),YA("cl"),YA("tild"),YA("whsp")>>,
   (* sl   *) <<AC("sl"),AC("sl"),AC("bsac"),AC("sl"),AC("sl"),AC("sl"),AC("sl"),AC("sl"),AC("sl"),AC("sl"),AC("sl"),AC("sl"),AC("sl"),AC("sl"),AC("sl"),AC("sl"),AC("sl"),AC("sl"),AC("sl"),AC("sl"),AC("sl"),AC("sl"),AC("sle"),AC("sl"),AC("sl"),AC("sl")>>,
   (* sle  *) <<YA("amp"),YA("astr"),PS("bksl"),YA("crt"),YA("cln"),YA("sle"),YA("dot"),YI("bol"),YA("eql"),YA("excl"),YA("fwsl"),YA("gt"),ER,YA("lt"),AC("sle"),AC("sle"),YA("mns"),YA("perc"),YA("pip"),YA("pls"),ER,YA("punc"),YA("sl"),YA("cl"),YA("tild"),YA("whsp")>>,
   (* tild *) <<YA("amp"),YA("astr"),PS("bksl"),YA("crt"),YA("cln"),YA("num"),YA("dot"),YI("bol"),YA("eql"),YA("excl"),YA("fwsl"),YA("gt"),ER,YA("lt"),YA("id"),YA("id"),YA("mns"),YA("perc"),YA("pip"),YA("pls"),ER,YA("punc"),YA("sl"),YA("cl"),YA("tild"),YA("whsp")>>,
   (* whsp *) <<YA("amp"),YA("astr"),PS("bksl"),YA("crt"),YA("cln"),YA("num"),YA("dot"),YI("bol"),YA("eql"),YA("excl"),YA("fwsl"),YA("gt"),ER,YA("lt"),YA("id"),YA("id"),YA("mns"),YA("perc"),YA("pip"),YA("pls"),ER,YA("punc"),YA("sl"),YA("cl"),YA("tild"),AC("whsp")>>
>>

(***************************************************************************)
(* smc_ttStateOutputs: the token type a state outputs, fixed (OF) or       *)
(* chosen by a special-case member function (OS).                          *)
(***************************************************************************)
OF(fixed) == [pfnSpecialCase |-> "nullptr", ttFixed |-> fixed]

OS(special) == [pfnSpecialCase |-> special, ttFixed |-> "error"]

smc_ttStateOutputs == <<
   (* amp  *) OF("ampersand"),
   (* amp2 *) OF("op_log_and"),
   (* arw  *) OF("op_deref_member_access"),
   (* arwa *) OF("op_ptr_to_member_deref_ptr"),
   (* astr *) OF("asterisk"),
   (* bksl *) OF("error"),
   (* bsac *) OF("error"),
   (* bol  *) OF("error"),
   (* cl   *) OF("error"),
   (* cle  *) OF("charlit"),
   (* cln  *) OF("colon"),
   (* cln2 *) OF("dbl_colon"),
   (* cmm  *) OF("error"),
   (* cmms *) OF("error"),
   (* cmmz *) OS("get_comment_token_type"),
   (* cms  *) OS("get_comment_token_type"),
   (* cpp  *) OS("get_cpreproc_token_type"),
   (* crt  *) OF("op_bit_xor"),
   (* crt2 *) OF("op_log_xor"),
   (* dot  *) OF("dot"),
   (* dot2 *) OF("error"),
   (* dot3 *) OF("ellipsis"),
   (* dota *) OF("op_ptr_to_member_deref_val"),
   (* eql  *) OF("assign"),
   (* excl *) OF("op_log_not"),
   (* fwsl *) OF("op_div"),
   (* gt   *) OF("op_rel_gt"),
   (* gt2  *) OF("op_rsh"),
   (* id   *) OF("identifier"),
   (* lt   *) OF("op_rel_lt"),
   (* lt2  *) OF("op_lsh"),
   (* mns  *) OF("minus"),
   (* mns2 *) OF("op_decr"),
   (* num  *) OF("number"),
   (* nume *) OF("number"),
   (* nums *) OF("number"),
   (* opeq *) OS("get_compound_assignm_token_type"),
   (* perc *) OF("op_mod"),
   (* pip  *) OF("op_bit_or"),
   (* pip2 *) OF("op_log_or"),
   (* pls  *) OF("plus"),
   (* pls2 *) OF("op_incr"),
   (* punc *) OS("get_punctuation_token_type"),
   (* sl   *) OF("error"),
   (* sle  *) OF("stringlit"),
   (* tild *) OF("op_bit_not"),
   (* whsp *) OF("whitesp")
>>

\* The three tables as functions of the enumerators' names.
ChtMapSize == Len(smc_chtMap)

\* Mutant: the row of lt2 yields on `=` as the default row does.
Evo_lt2_not_extended ==
   [s \in States |-> [c \in CharTypes |->
      IF s = "lt2" /\ c = "equal"
      THEN YA("eql")
      ELSE smc_evos[base(tokenizer_state, s) + 1][base(char_type, c) + 1]]]

\* Mutant: the row of dot2 yields on a letter as the default row does.
Evo_dot2_yields ==
   [s \in States |-> [c \in CharTypes |->
      IF s = "dot2" /\ c = "ltr"
      THEN YA("id")
      ELSE smc_evos[base(tokenizer_state, s) + 1][base(char_type, c) + 1]]]

\* Mutant: the row of nume yields on a sign as the default row does.
Evo_nume_sign_yields ==
   [s \in States |-> [c \in CharTypes |->
      IF s = "nume" /\ c \in {"plus", "minus"}
      THEN (IF c = "plus" THEN YA("pls") ELSE YA("mns"))
      ELSE smc_evos[base(tokenizer_state, s) + 1][base(char_type, c) + 1]]]

\* Mutant: the entry of dot2 for a digit is left without an evolution.
Evo_with_hole ==
   [s \in States |-> [c \in CharTypes |->
      IF s = "dot2" /\ c = "digit"
      THEN [stateNext |-> "none", actionNext |-> "none"]
      ELSE smc_evos[base(tokenizer_state, s) + 1][base(char_type, c) + 1]]]

\* Mutant: the row of id accumulates a character of class inval.
Evo_id_accumulates_inval ==
   [s \in States |-> [c \in CharTypes |->
      IF s = "id" /\ c = "inval"
      THEN AC("id")
      ELSE smc_evos[base(tokenizer_state, s) + 1][base(char_type, c) + 1]]]

\* Mutant: the row of bksl pushes on a backslash as the default row does.
Evo_bksl_pushes ==
   [s \in States |-> [c \in CharTypes |->
      IF s = "bksl" /\ c = "bksl"
      THEN PS("bksl")
      ELSE smc_evos[base(tokenizer_state, s) + 1][base(char_type, c) + 1]]]

\* Mutant: the row of arw yields on `*` as the default row does.
Evo_arw_not_extended ==
   [s \in States |-> [c \in CharTypes |->
      IF s = "arw" /\ c = "aster"
      THEN YA("astr")
      ELSE smc_evos[base(tokenizer_state, s) + 1][base(char_type, c) + 1]]]

\* Mutant: the row of cmmz yields on whitespace as the default row does.
Evo_cmmz_yields_on_blank ==
   [s \in States |-> [c \in CharTypes |->
      IF s = "cmmz" /\ c = "whsp"
      THEN YA("whsp")
      ELSE smc_evos[base(tokenizer_state, s) + 1][base(char_type, c) + 1]]]

\* Mutant: the row of cms accumulates the end-of-line as it does any other character.
Evo_cms_accumulates_eol ==
   [s \in States |-> [c \in CharTypes |->
      IF s = "cms" /\ c = "eol"
      THEN AC("cms")
      ELSE smc_evos[base(tokenizer_state, s) + 1][base(char_type, c) + 1]]]

\* smc_evos[m_stateCurr.base()][cht.base()]
Evo == [s \in States |-> [c \in CharTypes |->
          smc_evos[base(tokenizer_state, s) + 1][base(char_type, c) + 1]]]

StateOutput == [s \in States |-> smc_ttStateOutputs[base(tokenizer_state, s) + 1]]


(***************************************************************************)
(* Source text.  CodePoint gives the code point of the characters the      *)
(* inputs below are written with; Enc turns a sequence of such characters  *)
(* into the buffer handed to the tokenizer.                                *)
(***************************************************************************)
CodePoint ==
   ("\t" :> 9) @@ ("\n" :> 10) @@ ("\r" :> 13) @@ ("SOH" :> 1) @@ (" " :> 32) @@
   ("!" :> 33) @@ ("\"" :> 34) @@ ("#" :> 35) @@ ("$" :> 36) @@ ("%" :> 37) @@
   ("&" :> 38) @@ ("'" :> 39) @@ ("(" :> 40) @@ (")" :> 41) @@ ("*" :> 42) @@
   ("+" :> 43) @@ ("," :> 44) @@ ("-" :> 45) @@ ("." :> 46) @@ ("/" :> 47) @@
   ("0" :> 48) @@ ("1" :> 49) @@ (":" :> 58) @@ (";" :> 59) @@ ("<" :> 60) @@
   ("=" :> 61) @@ (">" :> 62) @@ ("?" :> 63) @@ ("@" :> 64) @@ ("E" :> 69) @@
   ("[" :> 91) @@ ("\\" :> 92) @@ ("]" :> 93) @@ ("^" :> 94) @@ ("_" :> 95) @@
   ("a" :> 97) @@ ("b" :> 98) @@ ("e" :> 101) @@ ("f" :> 102) @@ ("h" :> 104) @@
   ("l" :> 108) @@ ("o" :> 111) @@ ("q" :> 113) @@ ("x" :> 120) @@ ("{" :> 123) @@
   ("|" :> 124) @@ ("}" :> 125) @@ ("~" :> 126) @@ ("U+0080" :> 128) @@
   ("U+00E9" :> 233) @@ ("U+4E2D" :> 20013)

Enc(chars) == [i \in DOMAIN chars |-> CodePoint[chars[i]]]

(***************************************************************************)
(* class token (tokenizer.hxx): a text and a type.                         *)
(***************************************************************************)
token(s, tt) == [m_s |-> s, m_tt |-> tt]

\* token::token(): no text, type error.
DefaultToken == token(<<>>, "error")

(***************************************************************************)
(* operator++, lines 200-205: the type of the current character.           *)
(***************************************************************************)
\* Mutant: a character past the end of smc_chtMap is invalid.
chtOf_rejecting_non_ascii(ch) == IF ch < ChtMapSize THEN smc_chtMap[ch + 1] ELSE "inval"

chtOf(ch) == IF ch < ChtMapSize THEN smc_chtMap[ch + 1] ELSE "ltr"

(***************************************************************************)
(* The special-case classifiers.  Each gives the set of types the token    *)
(* text s can receive; the caller has defaulted the type to error.  A read *)
(* of a character the text does not have yields an unspecified character,  *)
(* so every branch the comparison selects between is possible.             *)
(***************************************************************************)
get_comment_token_type(s) ==
   IF Len(s) >= 3
   THEN {IF s[3] = CodePoint["!"] THEN "document" ELSE "comment"}
   ELSE {"document", "comment"}

get_compound_assignm_token_type(s) ==
   LET ch0 == s[1]
       Is(c) == ch0 = CodePoint[c]
   IN  CASE Is("!") -> {"op_rel_noteq"}
         [] Is("%") -> {"op_mod_assign"}
         [] Is("&") -> {"op_bit_and_assign"}
         [] Is("*") -> {"op_mult_assign"}
         [] Is("+") -> {"op_add_assign"}
         [] Is("-") -> {"op_sub_assign"}
         [] Is("/") -> {"op_div_assign"}
         [] Is("=") -> {"op_rel_equal"}
         [] Is("^") -> {"op_bit_xor_assign"}
         [] Is("|") -> {"op_bit_or_assign"}
         [] Is("<") \/ Is(">") ->
               LET shift == IF Is("<") THEN "op_lsh_assign" ELSE "op_rsh_assign"
                   rel   == IF Is("<") THEN "op_rel_lteq" ELSE "op_rel_gteq"
               IN  IF Len(s) >= 2
                   THEN {IF s[2] = ch0 THEN shift ELSE rel}
                   ELSE {shift, rel}
         [] OTHER -> {"error"}

get_cpreproc_token_type(s) == {"error"}

get_punctuation_token_type(s) ==
   LET Is(c) == s[1] = CodePoint[c]
   IN  CASE Is("(") -> {"parenl"}
         [] Is(")") -> {"parenr"}
         [] Is(",") -> {"comma"}
         [] Is(";") -> {"semicolon"}
         [] Is("?") -> {"qmark"}
         [] Is("[") -> {"bracketl"}
         [] Is("]") -> {"bracketr"}
         [] Is("{") -> {"bracel"}
         [] Is("}") -> {"bracer"}
         [] OTHER -> {"error"}

\* (this->*ot.pfnSpecialCase)()
SpecialCase(pfn, s) ==
   CASE pfn = "get_comment_token_type" -> get_comment_token_type(s)
     [] pfn = "get_compound_assignm_token_type" -> get_compound_assignm_token_type(s)
     [] pfn = "get_cpreproc_token_type" -> get_cpreproc_token_type(s)
     [] pfn = "get_punctuation_token_type" -> get_punctuation_token_type(s)

(***************************************************************************)
(* A frame is one activation of operator++: the members of the iterator,   *)
(* the locals statePushed and bYield, and what the call has done so far    *)
(* (emitted: the tokens it finalized; finalizedIn: the state each was      *)
(* finalized in; evos: the evolutions it took).                            *)
(***************************************************************************)
\* `tokenizer_state statePushed;` has no initializer.
Uninitialized == "uninitialized"

\* The states a read of statePushed can give.
ReadPushed(f) == IF f.statePushed = Uninitialized THEN States ELSE {f.statePushed}

\* Mutant: the move leaves the text in m_tkNext.
finalize_next_token_keeping_text(f) ==
   LET ot  == StateOutput[f.m_stateCurr]
       tts == IF ot.pfnSpecialCase # "nullptr"
              THEN SpecialCase(ot.pfnSpecialCase, f.m_tkNext.m_s)
              ELSE {ot.ttFixed}
   IN  {[f EXCEPT !.m_tkCurr = token(f.m_tkNext.m_s, tt),
                  !.m_tkNext = token(f.m_tkNext.m_s, tt),
                  !.emitted = Append(@, token(f.m_tkNext.m_s, tt)),
                  !.finalizedIn = Append(@, f.m_stateCurr)] : tt \in tts}

\* finalize_next_token(): type the pending token and move it into m_tkCurr;
\* the moved-from text is empty.
finalize_next_token(f) ==
   LET ot  == StateOutput[f.m_stateCurr]
       tts == IF ot.pfnSpecialCase # "nullptr"
              THEN SpecialCase(ot.pfnSpecialCase, f.m_tkNext.m_s)
              ELSE {ot.ttFixed}
   IN  {[f EXCEPT !.m_tkCurr = token(f.m_tkNext.m_s, tt),
                  !.m_tkNext = token(<<>>, tt),
                  !.emitted = Append(@, token(f.m_tkNext.m_s, tt)),
                  !.finalizedIn = Append(@, f.m_stateCurr)] : tt \in tts}

\* Mutant: the accumulation leaves the character out.
Accumulate_dropping_character(f, ch) == f

\* m_tkNext.m_s += ch
Accumulate(f, ch) == [f EXCEPT !.m_tkNext.m_s = Append(@, ch)]

\* Mutant: yield_and_accumulate breaks as yield_and_ignore does, without
\* falling through into the accumulation.
Yield_without_fall_through(f, ch, evo) ==
   LET ys == IF f.m_tkNext.m_s # <<>>
             THEN {[g EXCEPT !.bYield = TRUE] : g \in finalize_next_token(f)}
             ELSE {f}
   IN  {[g EXCEPT !.m_stateCurr = evo.stateNext] : g \in ys}

\* Mutant: the yield actions finalize without the test `if (m_tkNext.m_s)`.
Yield_of_empty_accumulator(f, ch, evo) ==
   LET ys == {[g EXCEPT !.bYield = TRUE] : g \in finalize_next_token(f)}
   IN  {[(IF evo.actionNext = "yield_and_ignore" THEN g ELSE Accumulate(g, ch))
            EXCEPT !.m_stateCurr = evo.stateNext] : g \in ys}

\* case yield_and_accumulate / yield_and_ignore, lines 214-227.
Yield(f, ch, evo) ==
   LET ys == IF f.m_tkNext.m_s # <<>>
             THEN {[g EXCEPT !.bYield = TRUE] : g \in finalize_next_token(f)}
             ELSE {f}
   IN  {[(IF evo.actionNext = "yield_and_ignore" THEN g ELSE Accumulate(g, ch))
            EXCEPT !.m_stateCurr = evo.stateNext] : g \in ys}

\* Mutant: the `break` of case error is missing, so that it falls through
\* into case pop_state.
Error_falling_through(f, ch, evo) ==
   {[f EXCEPT !.bYield = TRUE, !.m_stateCurr = sp] : sp \in ReadPushed(f)}

\* Mutant: the error action discards the pending text.
Error_clearing_accumulator(f, ch, evo) ==
   {[f EXCEPT !.bYield = TRUE, !.m_stateCurr = evo.stateNext, !.m_tkNext.m_s = <<>>]}

\* case error, lines 228-232: stop this call; the state becomes ER's whsp.
Error(f, ch, evo) == {[f EXCEPT !.bYield = TRUE, !.m_stateCurr = evo.stateNext]}

\* Mutant: `break` instead of `continue`, the state becomes evo.stateNext.
Pop_without_continue(f, ch, evo) ==
   {[f EXCEPT !.m_stateCurr = evo.stateNext,
              !.m_tkNext.m_s =
                 IF evo.actionNext = "pop_state_and_accumulate_backslash"
                 THEN @ \o <<CodePoint["\\"], ch>> ELSE @]}

\* case pop_state / pop_state_and_accumulate_backslash, lines 233-243; the
\* `continue` skips the assignment of evo.stateNext.
Pop(f, ch, evo) ==
   {[f EXCEPT !.m_stateCurr = sp,
              !.m_tkNext.m_s =
                 IF evo.actionNext = "pop_state_and_accumulate_backslash"
                 THEN @ \o <<CodePoint["\\"], ch>> ELSE @] : sp \in ReadPushed(f)}

\* case push_state, lines 244-246.
Push(f, ch, evo) == {[f EXCEPT !.statePushed = f.m_stateCurr, !.m_stateCurr = evo.stateNext]}

\* One iteration of the while loop, lines 198-248.
Iterate(f) ==
   LET ch  == f.m_sAll[f.m_itAllCurr + 1]
       cht == chtOf(ch)
       evo == Evo[f.m_stateCurr][cht]
       f1  == [f EXCEPT !.m_itAllCurr = @ + 1,
                        !.evos = Append(@, [state |-> f.m_stateCurr, ch |-> ch, cht |-> cht,
                                            evo |-> evo, pushed |-> f.statePushed,
                                            acc |-> f.m_tkNext.m_s])]
   IN  CASE evo.actionNext \in {"yield_and_accumulate", "yield_and_ignore"} -> Yield(f1, ch, evo)
         [] evo.actionNext = "accumulate" ->
               {[Accumulate(f1, ch) EXCEPT !.m_stateCurr = evo.stateNext]}
         [] evo.actionNext = "error" -> Error(f1, ch, evo)
         [] evo.actionNext \in {"pop_state", "pop_state_and_accumulate_backslash"} -> Pop(f1, ch, evo)
         [] evo.actionNext = "push_state" -> Push(f1, ch, evo)

\* while (m_itAllCurr != m_sAll.cend() && !bYield), line 197.
RECURSIVE Loop(_)
Loop(f) ==
   IF f.m_itAllCurr # Len(f.m_sAll) /\ ~f.bYield
   THEN UNION {Loop(g) : g \in Iterate(f)}
   ELSE {f}

\* Mutant: the final check does not test bYield.
EndOfInput_ignoring_bYield(f) ==
   IF f.m_tkNext.m_s # <<>>
   THEN {[g EXCEPT !.bYield = TRUE] : g \in finalize_next_token(f)}
   ELSE {[f EXCEPT !.m_tkCurr.m_tt = "end"]}

\* Mutant: the final check sets the end state without looking at m_tkNext.
EndOfInput_dropping_last_token(f) ==
   IF ~f.bYield
   THEN {[f EXCEPT !.m_tkCurr.m_tt = "end"]}
   ELSE {f}

\* if (!bYield) ..., lines 250-259: the final token, or the end state.
EndOfInput(f) ==
   IF ~f.bYield
   THEN IF f.m_tkNext.m_s # <<>>
        THEN {[g EXCEPT !.bYield = TRUE] : g \in finalize_next_token(f)}
        ELSE {[f EXCEPT !.m_tkCurr.m_tt = "end"]}
   ELSE {f}

\* token_iterator::operator++ on the iterator `it`: the frames it can end in.
operator_pp(it) ==
   LET f0 == [m_sAll |-> it.m_sAll, m_itAllCurr |-> it.m_itAllCurr,
              m_stateCurr |-> it.m_stateCurr, m_tkCurr |-> it.m_tkCurr,
              m_tkNext |-> it.m_tkNext,
              statePushed |-> Uninitialized, bYield |-> FALSE,
              emitted |-> <<>>, finalizedIn |-> <<>>, evos |-> <<>>]
   IN  UNION {EndOfInput(f) : f \in Loop(f0)}

\* token_iterator::token_iterator(mstr && sAll), before its call of operator++.
token_iterator(sAll) ==
   [m_sAll |-> sAll, m_itAllCurr |-> 0, m_stateCurr |-> "bol",
    m_tkCurr |-> DefaultToken, m_tkNext |-> DefaultToken]

(***************************************************************************)
(* Bounds and inputs.                                                      *)
(***************************************************************************)
\* Longest buffer built from CoreAlphabet.
MaxLen == 4

\* Longest buffer built from FullAlphabet.
MaxLenFull == 2

\* Calls of operator++ made beyond the ones that reach the end state.
MaxExtraCalls == 2

SeqsUpTo(A, n) == UNION {[1..k -> A] : k \in 0..n}

CoreAlphabet == Range(Enc(<<"a", "\\", "\n", " ", "$", "/", "*", "=">>))

\* At least one character of every character type, and one beyond ASCII.
FullAlphabet ==
   Range(Enc(<<"&", "*", "\\", "^", ":", "1", ".", "\n", "=", "!", "/", ">", "$", "SOH",
               "<", "a", "_", "e", "E", "-", "%", "|", "+", "#", "(", ")", ";", "\"", "'",
               "~", " ", "\t", "U+00E9">>))

\* Buffers written out in full.
Examples == {
   Enc(<<"f", "o", "\\", "\n", "o">>),
   Enc(<<"a", "\\", "q", "b">>),
   Enc(<<"a", "b", "\\", "\n", "1", "_">>),
   Enc(<<"a", " ", "$", " ", "b">>),
   Enc(<<"\"", "\\", "\"", "\"">>)
}

(***************************************************************************)
(* Buffers with one backslash + end-of-line inside a lexical context:      *)
(* <<what precedes it, what follows it>>.                                  *)
(***************************************************************************)
ContinuationContexts == {
   <<Enc(<<"f", "o">>), Enc(<<"o">>)>>,                       \* identifier
   <<Enc(<<"\"", "a">>), Enc(<<"b", "\"">>)>>,                \* string literal
   <<Enc(<<"'", "a">>), Enc(<<"'">>)>>,                       \* character literal
   <<Enc(<<"/", "/", "a">>), Enc(<<"b">>)>>,                  \* line comment
   <<Enc(<<"/", "*", "a">>), Enc(<<"b", "*", "/">>)>>,        \* block comment
   <<Enc(<<"/", "*", "a", "*">>), Enc(<<"/">>)>>,             \* block comment, after *
   <<Enc(<<"#", "a">>), Enc(<<"b">>)>>,                       \* preprocessor line
   <<Enc(<<"<">>), Enc(<<"<", "=">>)>>,                       \* operator, first character
   <<Enc(<<"<", "<">>), Enc(<<"=">>)>>,                       \* operator, second character
   <<Enc(<<"-">>), Enc(<<">", "*">>)>>,
   <<Enc(<<"1">>), Enc(<<"e", "+", "1">>)>>                   \* number
}

Continuation == <<CodePoint["\\"], CodePoint["\n"]>>

ContinuationInputs == {c[1] \o Continuation \o c[2] : c \in ContinuationContexts}

(***************************************************************************)
(* Buffers made of well-formed tokens separated by whitespace characters.  *)
(***************************************************************************)
WellFormedTokens == {
   Enc(<<"a">>), Enc(<<"e", "1">>), Enc(<<"1">>), Enc(<<"1", "e", "+", "1">>),
   Enc(<<"<", "<", "=">>), Enc(<<"+">>), Enc(<<"(">>), Enc(<<".">>),
   Enc(<<"\"", "a", "\"">>), Enc(<<"\"", "\\", "\"", "\"">>),
   Enc(<<"'", "a", "'">>), Enc(<<"/", "*", "a", "*", "/">>)
}

Blanks == {Enc(<<" ">>), Enc(<<"\t">>), Enc(<<" ", " ">>)}

WellFormedInputs ==
   WellFormedTokens \cup
   {t \o w \o u : t \in WellFormedTokens, w \in Blanks, u \in WellFormedTokens}

(***************************************************************************)
(* Comments: what stands between the opener and the end of the comment.    *)
(***************************************************************************)
CommentBodies == {
   <<>>, Enc(<<"!">>), Enc(<<"a">>), Enc(<<"!", " ", "a">>), Enc(<<" ", "!">>),
   Enc(<<"a", "*", "b">>), Enc(<<"a", "/", "b">>), Enc(<<"a", "\\", "b">>),
   Enc(<<"a", "$">>)
}

CommentInputs ==
   {Enc(<<"/", "*">>) \o b \o Enc(<<"*", "/">>) : b \in CommentBodies} \cup
   {Enc(<<"/", "/">>) \o b \o e : b \in CommentBodies, e \in {<<>>, Enc(<<"\n">>)}}

(***************************************************************************)
(* Operators made of several characters, alone and followed by a blank.    *)
(***************************************************************************)
ShiftAndRelational == {
   Enc(<<"<", "<", "=">>), Enc(<<"<", "=">>), Enc(<<"<", "<">>),
   Enc(<<">", ">", "=">>), Enc(<<">", "=">>), Enc(<<">", ">">>)
}

\* The operators the opeq state is reached with, and their token types.
CompoundAssignments == {
   <<Enc(<<"!", "=">>), "op_rel_noteq">>,      <<Enc(<<"%", "=">>), "op_mod_assign">>,
   <<Enc(<<"&", "=">>), "op_bit_and_assign">>, <<Enc(<<"*", "=">>), "op_mult_assign">>,
   <<Enc(<<"+", "=">>), "op_add_assign">>,     <<Enc(<<"-", "=">>), "op_sub_assign">>,
   <<Enc(<<"/", "=">>), "op_div_assign">>,     <<Enc(<<"=", "=">>), "op_rel_equal">>,
   <<Enc(<<"^", "=">>), "op_bit_xor_assign">>, <<Enc(<<"|", "=">>), "op_bit_or_assign">>,
   <<Enc(<<"<", "=">>), "op_rel_lteq">>,       <<Enc(<<">", "=">>), "op_rel_gteq">>,
   <<Enc(<<"<", "<", "=">>), "op_lsh_assign">>, <<Enc(<<">", ">", "=">>), "op_rsh_assign">>
}

OperatorInputs ==
   ShiftAndRelational \cup {o \o w : o \in ShiftAndRelational, w \in Blanks}
      \cup {c[1] : c \in CompoundAssignments}
      \cup {c[1] \o Enc(<<"a">>) : c \in CompoundAssignments}
      \cup {Enc(<<"|", "|", "=">>)}

(***************************************************************************)
(* Dots: two dots and one more character, the ellipsis, two dots continued *)
(* on the next line.                                                       *)
(***************************************************************************)
DotInputs ==
   {Enc(<<".", ".">>) \o <<c>> : c \in FullAlphabet} \cup
   {Enc(<<".", ".", ".">>), Enc(<<".", ".", "\\", "\n", ".">>), Enc(<<".", ".", "\\", "a">>)}

\* Numbers with an exponent.
NumberInputs == {
   Enc(<<"1", "e", "1", "0">>), Enc(<<"1", "e", "+", "1", "0">>),
   Enc(<<"1", "E", "-", "1", "0">>), Enc(<<"1", ".", "0", "e", "+", "1">>)
}

\* A complete operand followed by one more character, and a.b.
Operands == {
   Enc(<<"a">>), Enc(<<"1">>), Enc(<<"1", "e">>), Enc(<<"1", "a">>),
   Enc(<<"\"", "a", "\"">>), Enc(<<"'", "a", "'">>), Enc(<<"(">>)
}

SplitInputs ==
   {o \o <<c>> : o \in Operands, c \in FullAlphabet} \cup {Enc(<<"a", ".", "b">>)}

\* The delimiters and their token types; one delimiter, two adjacent ones.
Delimiters == {
   <<"(", "parenl">>, <<")", "parenr">>, <<",", "comma">>, <<";", "semicolon">>,
   <<"?", "qmark">>, <<"[", "bracketl">>, <<"]", "bracketr">>, <<"{", "bracel">>,
   <<"}", "bracer">>
}

PunctuationInputs ==
   {Enc(<<d[1]>>) : d \in Delimiters} \cup {Enc(<<d[1], e[1]>>) : d, e \in Delimiters}

(***************************************************************************)
(* Preprocessor lines: whitespace, `#`, a body, and the end of the line    *)
(* with or without a next line.  A body comes with the text it has once    *)
(* its continued lines are joined.                                         *)
(***************************************************************************)
CppLeads == {<<>>, Enc(<<" ">>), Enc(<<"\t", " ">>)}

CppBodies == {
   <<<<>>, <<>>>>,
   <<Enc(<<"a">>), Enc(<<"a">>)>>,
   <<Enc(<<"a", " ", "<", "b", ">">>), Enc(<<"a", " ", "<", "b", ">">>)>>,
   <<Enc(<<"a", " ", "\"", "b", "\"">>), Enc(<<"a", " ", "\"", "b", "\"">>)>>,
   <<Enc(<<"a", "#", "/", "/">>), Enc(<<"a", "#", "/", "/">>)>>,
   <<Enc(<<"a", "\\", "\n", "b">>), Enc(<<"a", "b">>)>>,
   <<Enc(<<"a", "\\", "\n", "\\", "\n", " ">>), Enc(<<"a", " ">>)>>
}

\* Bodies with a backslash before something else than an end-of-line, or
\* with a character of class inval.
CppBodiesInError == {
   <<Enc(<<"a", " ", "'", "\\", "0", "'">>), Enc(<<"a", " ", "'", "\\", "0", "'">>)>>,
   <<Enc(<<"a", "$">>), Enc(<<"a", "$">>)>>,
   <<Enc(<<"a", "SOH", "b">>), Enc(<<"a", "SOH", "b">>)>>
}

CppTails == {<<>>, Enc(<<"\n">>), Enc(<<"\n", "a">>)}

CppLine(lead, body, tail) == lead \o Enc(<<"#">>) \o body[1] \o tail

PreprocessorInputs ==
   {CppLine(l, b, t) : l \in CppLeads, b \in CppBodies \cup CppBodiesInError, t \in CppTails}

\* Code points past the end of smc_chtMap, alone and inside other tokens.
NonAscii == Range(Enc(<<"U+0080", "U+00E9", "U+4E2D">>))

NonAsciiInputs ==
   {p \o <<u>> \o q : p \in {<<>>, Enc(<<"a">>), Enc(<<"1">>), Enc(<<" ">>), Enc(<<"+">>)},
                      u \in NonAscii,
                      q \in {<<>>, Enc(<<"1">>), Enc(<<"e">>), Enc(<<".">>)}}

\* Text outside of any literal or comment that a buffer ends with, before a
\* final backslash.
CodePrefixes ==
   {<<>>, Enc(<<"a">>), Enc(<<"a", " ">>), Enc(<<"1">>), Enc(<<"+">>),
    Enc(<<"a", "\n">>), Enc(<<"(">>)}

\* Buffers whose last character is a backslash, with the end of the input after it.
TrailingBackslashInputs == {p \o Enc(<<"\\">>) : p \in CodePrefixes}

\* Characters written after a backslash inside a literal.
Escaped == Range(Enc(<<"a", "\"", "'", "\\", "0">>))

\* A string or character literal whose body is one escape, and the same with
\* a letter before and after the escape.
EscapeInputs ==
   {<<q>> \o p \o <<CodePoint["\\"], c>> \o p \o <<q>> :
       q \in Range(Enc(<<"\"", "'">>)), c \in Escaped, p \in {<<>>, Enc(<<"a">>)}}

\* The operators of two and three characters that are not assignments, and
\* their token types.
MultiCharOperators == {
   <<Enc(<<"-", "-">>), "op_decr">>,
   <<Enc(<<"+", "+">>), "op_incr">>,
   <<Enc(<<"-", ">">>), "op_deref_member_access">>,
   <<Enc(<<"-", ">", "*">>), "op_ptr_to_member_deref_ptr">>,
   <<Enc(<<".", "*">>), "op_ptr_to_member_deref_val">>,
   <<Enc(<<":", ":">>), "dbl_colon">>,
   <<Enc(<<"&", "&">>), "op_log_and">>,
   <<Enc(<<"|", "|">>), "op_log_or">>,
   <<Enc(<<"^", "^">>), "op_log_xor">>,
   <<Enc(<<"<", "<">>), "op_lsh">>,
   <<Enc(<<">", ">">>), "op_rsh">>
}

\* What is written before and after such an operator.
OperatorLeft == {<<>>, Enc(<<"a">>)}
OperatorRight == {<<>>, Enc(<<"a">>), Enc(<<" ">>)}

MultiCharOperatorInputs ==
   {l \o o[1] \o r : l \in OperatorLeft, o \in MultiCharOperators, r \in OperatorRight}

\* A closed string or character literal with a character written right after it.
LiteralSuffixes == Range(Enc(<<"1", "a", "_", " ", ";">>))

LiteralThenInputs ==
   {<<q, CodePoint["a"], q>> \o s : q \in Range(Enc(<<"\"", "'">>)),
                                     s \in {<<>>} \cup {<<c>> : c \in LiteralSuffixes}}

\* A doubled operator character with `=` written right after it.
DoubledThenAssignInputs ==
   {Enc(<<"&", "&", "=">>), Enc(<<"|", "|", "=">>), Enc(<<"^", "^", "=">>)}

\* A closed block comment, and what is written right after it.
ClosedComments ==
   {Enc(<<"/", "*", "*", "/">>), Enc(<<"/", "*", "a", "*", "/">>),
    Enc(<<"/", "*", "!", "*", "/">>)}

AfterComment == {<<>>, Enc(<<"a">>), Enc(<<";">>), Enc(<<"\n", "a">>)}

CommentThenInputs ==
   {c \o w \o t : c \in ClosedComments, w \in Blanks \cup {<<>>}, t \in AfterComment}

\* Literals and block comments that are not closed, without a backslash.
OpenLiterals ==
   {Enc(<<"\"">>), Enc(<<"\"", "a">>), Enc(<<"\"", "a", "$">>), Enc(<<"\"", "'", "\n", "a">>),
    Enc(<<"'">>), Enc(<<"'", "a">>), Enc(<<"'", "@", "\"">>)}

OpenComments ==
   {Enc(<<"/", "*">>), Enc(<<"/", "*", "a">>), Enc(<<"/", "*", "a", "*">>),
    Enc(<<"/", "*", "/">>), Enc(<<"/", "*", "\n", "a">>)}

\* The same with a character of class inval in the comment.
OpenCommentsInError == {Enc(<<"/", "*", "$">>), Enc(<<"/", "*", "a", "@", "a">>)}

\* What is written before them, and the tokens it is yielded as.
BeforeOpen ==
   {<<<<>>, <<>>>>,
    <<Enc(<<"a", " ">>), <<token(Enc(<<"a">>), "identifier"), token(Enc(<<" ">>), "whitesp")>>>>,
    <<Enc(<<"1", ";">>), <<token(Enc(<<"1">>), "number"), token(Enc(<<";">>), "semicolon")>>>>}

UnterminatedInputs ==
   {p[1] \o u : p \in BeforeOpen, u \in OpenLiterals \cup OpenComments \cup OpenCommentsInError}

Inputs ==
   SeqsUpTo(CoreAlphabet, MaxLen) \cup SeqsUpTo(FullAlphabet, MaxLenFull)
      \cup Examples \cup ContinuationInputs \cup WellFormedInputs
      \cup CommentInputs \cup OperatorInputs \cup DotInputs \cup NumberInputs
      \cup SplitInputs \cup PunctuationInputs \cup PreprocessorInputs
      \cup NonAsciiInputs
      \cup TrailingBackslashInputs
      \cup EscapeInputs
      \cup MultiCharOperatorInputs
      \cup LiteralThenInputs
      \cup DoubledThenAssignInputs
      \cup CommentThenInputs
      \cup UnterminatedInputs

\* Longest buffer built from CoreAlphabet that a second iterator is run on.
MaxLenRerun == 3

InputsRerun ==
   SeqsUpTo(CoreAlphabet, MaxLenRerun) \cup Examples \cup ContinuationInputs

(***************************************************************************)
(* State.                                                                  *)
(***************************************************************************)
VARIABLES
   m_sAll,       \* string to tokenize
   m_itAllCurr,  \* offset in m_sAll of the current character
   m_stateCurr,  \* current state of the tokenizer
   m_tkCurr,     \* current token, the one operator* gives the caller
   m_tkNext,     \* next token, being accumulated
   pc,           \* "main": nothing read yet; "new": buffer read; "iter": iterator constructed
   calls,        \* calls of operator++ made on this iterator
   yielded,      \* the tokens finalized so far, in order
   seen,         \* what the caller's loop saw in *it after each call
   errored,      \* some call took the error action
   taken,        \* the tokenizer actions taken by the calls so far
   last,         \* what the last call of operator++ started from and did
   pass,         \* "first", or "again" / "spliced" for a second iterator
   firstRun      \* what the first iterator yielded, once a second one runs

vars == <<m_sAll, m_itAllCurr, m_stateCurr, m_tkCurr, m_tkNext, pc, calls, yielded, seen,
          errored, taken, last, pass, firstRun>>

\* The iterator object.
Self ==
   [m_sAll |-> m_sAll, m_itAllCurr |-> m_itAllCurr, m_stateCurr |-> m_stateCurr,
    m_tkCurr |-> m_tkCurr, m_tkNext |-> m_tkNext]

NoCall ==
   [start |-> token_iterator(<<>>), emitted |-> <<>>, finalizedIn |-> <<>>, evos |-> <<>>]

NoRun == [m_sAll |-> <<>>, yielded |-> <<>>, errored |-> FALSE]

\* The actions of the evolutions a call took.
TookAction(evos, a) == \E i \in DOMAIN evos : evos[i].evo.actionNext = a

\* mkdoc_tokenizer_app::main before it has read the file into sAll.
Init ==
   /\ m_sAll = <<>>
   /\ m_itAllCurr = 0
   /\ m_stateCurr = "bol"
   /\ m_tkCurr = DefaultToken
   /\ m_tkNext = DefaultToken
   /\ pc = "main"
   /\ calls = 0
   /\ yielded = <<>>
   /\ seen = <<>>
   /\ errored = FALSE
   /\ taken = {}
   /\ last = NoCall
   /\ pass = "first"
   /\ firstRun = NoRun

\* read_all(&sAll): the buffer is any of `buffers`.
Read(buffers) ==
   /\ pc = "main"
   /\ m_sAll' \in buffers
   /\ pc' = "new"
   /\ UNCHANGED <<m_itAllCurr, m_stateCurr, m_tkCurr, m_tkNext, calls, yielded, seen,
                  errored, taken, last, pass, firstRun>>

ReadAll == Read(Inputs)

\* One call of operator++ on the iterator `it`; observe is whether the loop
\* of mkdoc_tokenizer_app::main is the caller (it looks at *it afterwards).
Call(it, observe) ==
   \E f \in operator_pp(it) :
      /\ m_itAllCurr' = f.m_itAllCurr
      /\ m_stateCurr' = f.m_stateCurr
      /\ m_tkCurr' = f.m_tkCurr
      /\ m_tkNext' = f.m_tkNext
      /\ calls' = calls + 1
      /\ yielded' = yielded \o f.emitted
      /\ errored' = (errored \/ TookAction(f.evos, "error"))
      /\ taken' = taken \cup {f.evos[i].evo.actionNext : i \in DOMAIN f.evos}
      /\ last' = [start |-> it, emitted |-> f.emitted, finalizedIn |-> f.finalizedIn,
                  evos |-> f.evos]
      /\ seen' = IF observe
                 THEN Append(seen, [tk |-> f.m_tkCurr, err |-> TookAction(f.evos, "error")])
                 ELSE seen

\* token_iterator it(std::move(sAll)): the constructor finds the first token.
Construct ==
   /\ pc = "new"
   /\ pc' = "iter"
   /\ Call(token_iterator(m_sAll), TRUE)
   /\ UNCHANGED <<m_sAll, pass, firstRun>>

\* ++it.  The loop of main stops at the end iterator; any other caller may go on.
Increment ==
   /\ pc = "iter"
   /\ calls < Len(m_sAll) + 2 + MaxExtraCalls
   /\ Call(Self, m_tkCurr.m_tt # "end")
   /\ UNCHANGED <<m_sAll, pc, pass, firstRun>>

Next == ReadAll \/ Construct \/ Increment

Spec == Init /\ [][Next]_vars

(***************************************************************************)
(* A second, fresh iterator once the first has reached the end: on the     *)
(* same buffer, or on the buffer without its first backslash + end-of-line.*)
(***************************************************************************)
IsContinuationAt(s, i) ==
   i + 1 <= Len(s) /\ s[i] = CodePoint["\\"] /\ s[i + 1] = CodePoint["\n"]

HasContinuation(s) == \E i \in DOMAIN s : IsContinuationAt(s, i)

RemoveContinuation(s) ==
   LET i == CHOOSE k \in DOMAIN s :
               IsContinuationAt(s, k) /\ \A j \in 1..(k - 1) : ~IsContinuationAt(s, j)
   IN  SubSeq(s, 1, i - 1) \o SubSeq(s, i + 2, Len(s))

Fresh(sAll, kind) ==
   /\ pc = "iter"
   /\ pass = "first"
   /\ m_tkCurr.m_tt = "end"
   /\ firstRun' = [m_sAll |-> m_sAll, yielded |-> yielded, errored |-> errored]
   /\ pass' = kind
   /\ m_sAll' = sAll
   /\ m_itAllCurr' = 0
   /\ m_stateCurr' = "bol"
   /\ m_tkCurr' = DefaultToken
   /\ m_tkNext' = DefaultToken
   /\ pc' = "new"
   /\ calls' = 0
   /\ yielded' = <<>>
   /\ seen' = <<>>
   /\ errored' = FALSE
   /\ taken' = {}
   /\ last' = NoCall

RunAgain == Fresh(m_sAll, "again")

RunSpliced == HasContinuation(m_sAll) /\ Fresh(RemoveContinuation(m_sAll), "spliced")

ReadAllRerun == Read(InputsRerun)

NextRerun == ReadAllRerun \/ Construct \/ Increment \/ RunAgain \/ RunSpliced

SpecRerun == Init /\ [][NextRerun]_vars

\* The concatenation of the texts of a sequence of tokens.
RECURSIVE Concat(_)
Concat(tks) == IF tks = <<>> THEN <<>> ELSE Head(tks).m_s \o Concat(Tail(tks))

TypeOK ==
   /\ m_itAllCurr \in 0..Len(m_sAll)
   /\ m_stateCurr \in States
   /\ m_tkCurr.m_tt \in TokenTypes
   /\ pc \in {"main", "new", "iter"}

(***************************************************************************)
(* Vocabulary of the properties.                                           *)
(***************************************************************************)
AtEnd == pc = "iter" /\ m_tkCurr.m_tt = "end"

\* The step is a call of operator++ (by the constructor or by ++it).
IsCall == calls' = calls + 1

Texts(tks) == [i \in DOMAIN tks |-> tks[i].m_s]

\* Characters that can follow the first character of an identifier.
IsIdChars(s) == \A i \in DOMAIN s : chtOf(s[i]) \in {"ltr", "ltre", "digit"}

IsIdentifierText(s) == s # <<>> /\ chtOf(s[1]) \in {"ltr", "ltre"} /\ IsIdChars(s)

Contains(s, sub) ==
   \E i \in 1..(Len(s) - Len(sub) + 1) : SubSeq(s, i, i + Len(sub) - 1) = sub

(***************************************************************************)
(* C1: every call of operator++ consumes at least one input character,     *)
(* emits a pending token or sets the end state, so the end state is        *)
(* reached, and it is reached within Len(m_sAll) + 2 calls.                *)
(***************************************************************************)
C1_Progress ==
   IsCall => \/ m_itAllCurr' > m_itAllCurr
             \/ last'.emitted # <<>>
             \/ m_tkCurr'.m_tt = "end"

C1_Termination ==
   /\ [][C1_Progress]_vars
   /\ [](calls >= Len(m_sAll) + 2 => AtEnd)

C1_Witness ==
   AtEnd /\ Len(m_sAll) >= 3 /\ Len(yielded) >= 2 /\ calls = Len(yielded) + 1

(***************************************************************************)
(* C2 (as claimed): the caller sees exactly one terminal marker, the end   *)
(* marker or an error marker (the error-typed token a call that took the   *)
(* error action leaves in *it), never both.                                *)
(***************************************************************************)
IsTerminalMarker(o) == o.tk.m_tt = "end" \/ (o.err /\ o.tk.m_tt = "error")

C2_OneTerminalMarker ==
   /\ Cardinality({i \in DOMAIN seen : IsTerminalMarker(seen[i])}) <= 1
   /\ \A i \in DOMAIN seen : IsTerminalMarker(seen[i]) => i = Len(seen)

(***************************************************************************)
(* C3 (as claimed): a call that takes the error action leaves an error     *)
(* marker (type error, no text) as the current token, and once the error   *)
(* action has been taken no later call consumes input.                     *)
(***************************************************************************)
C3_ErrorStep ==
   /\ (IsCall /\ TookAction(last'.evos, "error")) => m_tkCurr' = DefaultToken
   /\ errored => m_itAllCurr' = m_itAllCurr

C3_ErrorHalts == [][C3_ErrorStep]_vars

(***************************************************************************)
(* C4: once the current token type is end, a further call of operator++    *)
(* leaves it end, consumes no input and emits no token.                    *)
(***************************************************************************)
C4_EndIsSticky ==
   [][(AtEnd /\ IsCall) =>
         /\ m_tkCurr'.m_tt = "end"
         /\ m_itAllCurr' = m_itAllCurr
         /\ yielded' = yielded
         /\ m_tkNext' = m_tkNext]_vars

C4_Witness == AtEnd /\ last.start.m_tkCurr.m_tt = "end" /\ yielded # <<>>

(***************************************************************************)
(* C5: a call that finds the input exhausted finalizes the pending token   *)
(* if the accumulator is non-empty (exactly that one token, and the type   *)
(* is not end) and sets the end state if it is empty; hence the end marker *)
(* comes with the call after the last token, and a call that sets the end  *)
(* state emits nothing.                                                    *)
(***************************************************************************)
C5_LastTokenThenEnd ==
   [][IsCall =>
         /\ (m_itAllCurr = Len(m_sAll) /\ m_tkNext.m_s # <<>>) =>
               /\ last'.emitted = <<token(m_tkNext.m_s, m_tkCurr'.m_tt)>>
               /\ m_tkCurr' = last'.emitted[1]
               /\ m_tkCurr'.m_tt # "end"
               /\ m_tkNext'.m_s = <<>>
         /\ (m_itAllCurr = Len(m_sAll) /\ m_tkNext.m_s = <<>>) =>
               /\ m_tkCurr'.m_tt = "end"
               /\ last'.emitted = <<>>
         /\ m_tkCurr'.m_tt = "end" =>
               /\ last'.emitted = <<>>
               /\ m_tkNext'.m_s = <<>>
               /\ m_itAllCurr' = Len(m_sAll)
         /\ Len(last'.emitted) <= 1]_vars

C5_Witness ==
   /\ AtEnd
   /\ last.start.m_tkCurr.m_tt # "end"
   /\ last.start.m_itAllCurr = Len(m_sAll)
   /\ Len(m_sAll) >= 3
   /\ Len(yielded) >= 2

(***************************************************************************)
(* C6 (as claimed): for a buffer of well-formed tokens separated by        *)
(* whitespace characters, the texts of the yielded tokens, concatenated in *)
(* order, are the buffer.                                                  *)
(***************************************************************************)
C6_RoundTrip ==
   (AtEnd /\ m_sAll \in WellFormedInputs) => Concat(yielded) = m_sAll

(***************************************************************************)
(* C7 (as claimed): a second fresh iterator on the same buffer yields the  *)
(* same tokens, texts and types, as the first.                             *)
(***************************************************************************)
C7_SameTokensAgain ==
   (AtEnd /\ pass = "again") => yielded = firstRun.yielded

(***************************************************************************)
(* C8: in a buffer that is an identifier with one backslash + end-of-line  *)
(* inside (x, backslash, end-of-line, y, with x an identifier and y made   *)
(* of identifier characters), the pass yields the single identifier token  *)
(* x y: fo\<eol>o gives the identifier foo.                                *)
(***************************************************************************)
C8_ContinuationInIdentifier ==
   \A i \in DOMAIN m_sAll :
      LET x == SubSeq(m_sAll, 1, i - 1)
          y == SubSeq(m_sAll, i + 2, Len(m_sAll))
      IN  (AtEnd /\ IsContinuationAt(m_sAll, i) /\ IsIdentifierText(x) /\ IsIdChars(y))
             => yielded = <<token(x \o y, "identifier")>>

C8_Witness ==
   /\ AtEnd
   /\ m_sAll = Enc(<<"f", "o", "\\", "\n", "o">>)
   /\ yielded = <<token(Enc(<<"f", "o", "o">>), "identifier")>>

C10_ContinuationEverywhere ==
   (AtEnd /\ pass = "spliced" /\ firstRun.m_sAll \in ContinuationInputs)
      => yielded = firstRun.yielded

(***************************************************************************)
(* C11 (as claimed): a buffer that is one complete block comment, or one   *)
(* line comment up to the end of its line, yields that comment as a single *)
(* token, typed document when the character after the two-character opener *)
(* is `!` and comment otherwise.                                           *)
(***************************************************************************)
IsBlockComment(s) ==
   /\ Len(s) >= 4
   /\ SubSeq(s, 1, 2) = Enc(<<"/", "*">>)
   /\ \A i \in 3..(Len(s) - 1) : (SubSeq(s, i, i + 1) = Enc(<<"*", "/">>)) <=> (i = Len(s) - 1)

\* The text of the line comment the buffer s is, with or without its end-of-line.
LineCommentText(s) ==
   IF s # <<>> /\ s[Len(s)] = CodePoint["\n"] THEN SubSeq(s, 1, Len(s) - 1) ELSE s

IsLineComment(s) ==
   /\ Len(s) >= 2
   /\ SubSeq(s, 1, 2) = Enc(<<"/", "/">>)
   /\ ~(CodePoint["\n"] \in Range(LineCommentText(s)))

CommentType(s) == IF Len(s) >= 3 /\ s[3] = CodePoint["!"] THEN "document" ELSE "comment"

C11_CommentIsOneToken ==
   /\ (AtEnd /\ IsBlockComment(m_sAll)) => yielded = <<token(m_sAll, CommentType(m_sAll))>>
   /\ (AtEnd /\ IsLineComment(m_sAll)) =>
         yielded = <<token(LineCommentText(m_sAll), CommentType(LineCommentText(m_sAll)))>>

(***************************************************************************)
(* C12: longest match for the shift and relational operators: <<= yields   *)
(* the single token op_lsh_assign, <= the single token op_rel_lteq, and << *)
(* followed by whitespace the single operator token op_lsh (then the       *)
(* whitespace); the same for >>=, >= and >>.                               *)
(***************************************************************************)
C12_Expected(op, tt) ==
   \A w \in Blanks \cup {<<>>} :
      (AtEnd /\ m_sAll = Enc(op) \o w) =>
         yielded = <<token(Enc(op), tt)>> \o (IF w = <<>> THEN <<>> ELSE <<token(w, "whitesp")>>)

C12_LongestMatch ==
   /\ C12_Expected(<<"<", "<", "=">>, "op_lsh_assign")
   /\ C12_Expected(<<"<", "=">>, "op_rel_lteq")
   /\ C12_Expected(<<"<", "<">>, "op_lsh")
   /\ C12_Expected(<<">", ">", "=">>, "op_rsh_assign")
   /\ C12_Expected(<<">", "=">>, "op_rel_gteq")
   /\ C12_Expected(<<">", ">">>, "op_rsh")

C12_Witness ==
   /\ AtEnd
   /\ m_sAll = Enc(<<"<", "<", "=">>)
   /\ yielded = <<token(Enc(<<"<", "<", "=">>), "op_lsh_assign")>>

(***************************************************************************)
(* C13 (as claimed): every token finalized in the state opeq gets a type   *)
(* other than error, and each of != %= &= *= += -= /= == ^= |= <= >= <<=   *)
(* >>= yields exactly one token, of the type of that operator.             *)
(***************************************************************************)
C13_FinalizedInOpeq ==
   IsCall => \A i \in DOMAIN last'.emitted :
                last'.finalizedIn[i] = "opeq" => last'.emitted[i].m_tt # "error"

C13_EachOperator ==
   \A c \in CompoundAssignments :
      (AtEnd /\ m_sAll = c[1]) => yielded = <<token(c[1], c[2])>>

C13_OperatorEquals == [][C13_FinalizedInOpeq /\ C13_EachOperator']_vars

(***************************************************************************)
(* C14 (as claimed): ... yields one ellipsis token, and from the state     *)
(* dot2 every character other than a dot selects the error action.         *)
(***************************************************************************)
C14_Ellipsis ==
   (AtEnd /\ m_sAll = Enc(<<".", ".", ".">>)) =>
      yielded = <<token(Enc(<<".", ".", ".">>), "ellipsis")>>

C14_FromTwoDots(exempt) ==
   IsCall => \A i \in DOMAIN last'.evos :
                LET e == last'.evos[i]
                IN  (e.state = "dot2" /\ e.cht \notin exempt) =>
                       /\ e.evo.actionNext = "error"
                       /\ errored'

C14_BackslashFromTwoDots ==
   /\ IsCall => \A i \in DOMAIN last'.evos :
                   LET e == last'.evos[i]
                   IN  (e.state = "dot2" /\ e.cht = "bksl") => e.evo = PS("bksl")
   /\ (AtEnd /\ m_sAll = Enc(<<".", ".", "\\", "\n", ".">>))' =>
         (yielded = <<token(Enc(<<".", ".", ".">>), "ellipsis")>> /\ ~errored)'
   /\ (AtEnd /\ m_sAll = Enc(<<".", ".", "\\", "a">>))' => errored'

TypeAlone(c) ==
   LET ot == StateOutput[Evo["whsp"][chtOf(c)].stateNext]
   IN  IF ot.pfnSpecialCase # "nullptr" THEN SpecialCase(ot.pfnSpecialCase, <<c>>)
       ELSE {ot.ttFixed}

C15_DotThenNext ==
   \A c \in FullAlphabet :
      (/\ AtEnd
       /\ m_sAll = <<CodePoint["."], c>>
       /\ chtOf(c) \notin {"dot", "digit"})
         => /\ yielded # <<>>
            /\ yielded[1] = token(Enc(<<".">>), "dot")
            /\ Len(yielded) <= 2
            /\ Len(yielded) = 2 =>
                  (yielded[2].m_s = <<c>> /\ yielded[2].m_tt \in TypeAlone(c))

(***************************************************************************)
(* C16: a number with an exponent is one token: 1e10 yields the number     *)
(* 1e10 and 1e+10 the number 1e+10, the sign after e or E being part of    *)
(* the number.                                                             *)
(***************************************************************************)
C16_NumberWithExponent ==
   \A n \in NumberInputs : (AtEnd /\ m_sAll = n) => yielded = <<token(n, "number")>>

C16_Witness ==
   /\ AtEnd
   /\ m_sAll = Enc(<<"1", "e", "+", "1", "0">>)
   /\ yielded = <<token(Enc(<<"1", "e", "+", "1", "0">>), "number")>>

(***************************************************************************)
(* C17 (as claimed): from the states id, num, nume, nums, sle, cle and     *)
(* punc, a character that is not accumulated into the current token makes  *)
(* the call yield that token and is the first character of the next one;   *)
(* a.b yields the identifier a, the dot and the identifier b.              *)
(***************************************************************************)
OperandStates == {"id", "num", "nume", "nums", "sle", "cle", "punc"}

C17_SplitExample ==
   (AtEnd /\ m_sAll = Enc(<<"a", ".", "b">>)) =>
      yielded = <<token(Enc(<<"a">>), "identifier"), token(Enc(<<".">>), "dot"),
                  token(Enc(<<"b">>), "identifier")>>

\* The i-th evolution of the last call ended the call with one token yielded
\* and the character next as the pending text.
C17_YieldsAndKeeps(i, next) ==
   /\ i = Len(last'.evos)
   /\ Len(last'.emitted) = 1
   /\ last'.emitted[1].m_s # <<>>
   /\ m_tkNext'.m_s = next

C17_NoCharacterLost ==
   IsCall => \A i \in DOMAIN last'.evos :
                LET e == last'.evos[i]
                IN  (e.state \in OperandStates /\ e.evo.actionNext # "accumulate")
                       => C17_YieldsAndKeeps(i, <<e.ch>>)

C17_SplitWithoutLoss == [][C17_SplitExample' /\ C17_NoCharacterLost]_vars

(***************************************************************************)
(* C17 (amended): from those states, a character that is not accumulated   *)
(* and whose class is not eol, inval, pound or bksl selects                *)
(* yield_and_accumulate: the call yields the current token and the         *)
(* character is the first one of the next token.  An end-of-line selects   *)
(* yield_and_ignore: the token is yielded and the end-of-line is dropped.  *)
(* A character of class inval or pound selects the error action and is     *)
(* dropped, a backslash pushes the state.  a.b yields a, the dot and b.    *)
(***************************************************************************)
C17_ByClass ==
   IsCall => \A i \in DOMAIN last'.evos :
                LET e == last'.evos[i]
                IN  (e.state \in OperandStates /\ e.evo.actionNext # "accumulate") =>
                       CASE e.cht = "eol" ->
                               /\ e.evo = YI("bol")
                               /\ C17_YieldsAndKeeps(i, <<>>)
                         [] e.cht \in {"inval", "pound"} ->
                               /\ e.evo = ER
                               /\ i = Len(last'.evos)
                               /\ last'.emitted = <<>>
                               /\ m_tkNext'.m_s # <<>>
                               /\ m_stateCurr' = "whsp"
                         [] e.cht = "bksl" -> e.evo = PS("bksl")
                         [] OTHER ->
                               /\ e.evo.actionNext = "yield_and_accumulate"
                               /\ C17_YieldsAndKeeps(i, <<e.ch>>)

C17_SplitByClass == [][C17_SplitExample' /\ C17_ByClass]_vars

C17_Witness ==
   /\ AtEnd
   /\ m_sAll = Enc(<<"a", ".", "b">>)
   /\ Texts(yielded) = <<Enc(<<"a">>), Enc(<<".">>), Enc(<<"b">>)>>

(***************************************************************************)
(* C18 (as claimed): each of ( ) , ; ? [ ] { } is yielded as a token of    *)
(* one character with the type of that delimiter, two adjacent delimiters  *)
(* are two tokens, and no token finalized in the state punc keeps the type *)
(* error.                                                                  *)
(***************************************************************************)
C18_EachDelimiter ==
   /\ \A d \in Delimiters :
         (AtEnd /\ m_sAll = Enc(<<d[1]>>)) => yielded = <<token(Enc(<<d[1]>>), d[2])>>
   /\ \A d, e \in Delimiters :
         (AtEnd /\ m_sAll = Enc(<<d[1], e[1]>>)) =>
            yielded = <<token(Enc(<<d[1]>>), d[2]), token(Enc(<<e[1]>>), e[2])>>

C18_FinalizedInPunc ==
   IsCall => \A i \in DOMAIN last'.emitted :
                last'.finalizedIn[i] = "punc" => last'.emitted[i].m_tt # "error"

C18_Delimiters == [][C18_EachDelimiter' /\ C18_FinalizedInPunc]_vars

(***************************************************************************)
(* C19 (as claimed): a preprocessor line, from the `#` that is the first   *)
(* character of the line after whitespace to the end of the line with its  *)
(* continued lines joined, is yielded as one token of type error, and the  *)
(* next line is tokenized after it.                                        *)
(***************************************************************************)
C19_LineIsOneToken(bodies) ==
   \A l \in CppLeads, b \in bodies, t \in CppTails :
      (AtEnd /\ m_sAll = CppLine(l, b, t)) =>
         yielded = <<token(Enc(<<"#">>) \o b[2], "error")>>
                      \o (IF Len(t) = 2 THEN <<token(Enc(<<"a">>), "identifier")>> ELSE <<>>)

C19_PreprocessorLine == C19_LineIsOneToken(CppBodies \cup CppBodiesInError)

(***************************************************************************)
(* C20: a code point past the 7-bit ASCII range has the class ltr, and the *)
(* evolution taken for it is the one of the current state for a letter:    *)
(* alone it is an identifier, after the start of an identifier it extends  *)
(* it, after a number it is its suffix.                                    *)
(***************************************************************************)
C20_ClassOfNonAscii ==
   IsCall => \A i \in DOMAIN last'.evos :
                LET e == last'.evos[i]
                IN  e.ch >= ChtMapSize => (e.cht = "ltr" /\ e.evo = Evo[e.state]["ltr"])

C20_AsALetter ==
   \A u \in NonAscii :
      /\ (AtEnd /\ m_sAll = <<u>>) => yielded = <<token(<<u>>, "identifier")>>
      /\ (AtEnd /\ m_sAll = <<CodePoint["a"], u, CodePoint["1"]>>) =>
            yielded = <<token(m_sAll, "identifier")>>
      /\ (AtEnd /\ m_sAll = <<CodePoint["1"], u>>) => yielded = <<token(m_sAll, "number")>>
      /\ (AtEnd /\ m_sAll = <<CodePoint["+"], u>>) =>
            yielded = <<token(Enc(<<"+">>), "plus"), token(<<u>>, "identifier")>>

C20_NonAsciiIsLetter == [][C20_ClassOfNonAscii /\ C20_AsALetter']_vars

C20_Witness ==
   /\ AtEnd
   /\ m_sAll = Enc(<<"a", "U+00E9", "1">>)
   /\ yielded = <<token(Enc(<<"a", "U+00E9", "1">>), "identifier")>>

(***************************************************************************)
(* C21: a backslash outside of a literal that is the last character of the *)
(* input is a lexical error: the pass ends with an error marker that has   *)
(* no text, not with a normal token or with a plain end marker.            *)
(***************************************************************************)
C21_TrailingBackslash ==
   \A p \in CodePrefixes :
      (AtEnd /\ m_sAll = p \o Enc(<<"\\">>)) =>
         /\ \E i \in DOMAIN seen : seen[i].tk = token(<<>>, "error")
         /\ \A i \in DOMAIN yielded : yielded[i].m_s = <<>> => yielded[i].m_tt = "error"

(***************************************************************************)
(* C22: whenever the iterator is in the end state, the current token that  *)
(* the caller sees has the type end and an empty text, whatever tokens     *)
(* were yielded before.                                                    *)
(***************************************************************************)
C22_EndHasNoText == AtEnd => m_tkCurr = token(<<>>, "end")

(***************************************************************************)
(* C23: the transition table is total.  It has one row for every tokenizer *)
(* state and one entry in each row for every character class, every entry  *)
(* is an evolution (a tokenizer state and a tokenizer action), and every   *)
(* lookup made by a call of operator++ is made in a tokenizer state, with  *)
(* a character class, and finds the entry of the table.                    *)
(***************************************************************************)
C23_IsEvolution(evo) ==
   /\ evo.stateNext \in States
   /\ evo.actionNext \in Range(tokenizer_action)

\* The table as such; it never changes, so it is looked at before the first call.
C23_EveryEntry ==
   /\ Len(smc_evos) = Len(tokenizer_state)
   /\ \A r \in DOMAIN smc_evos : Len(smc_evos[r]) = Len(char_type)
   /\ \A s \in States : \A c \in CharTypes : C23_IsEvolution(Evo[s][c])

IsYield(e) == e.evo.actionNext \in {"yield_and_accumulate", "yield_and_ignore"}

C24_OncePerToken ==
   IsCall =>
      LET e == last'.evos
          n == Len(e)
      IN  /\ Len(last'.emitted) <= 1
          /\ \A i \in DOMAIN last'.emitted :
                last'.emitted[i].m_s # <<>> /\ m_tkCurr' = last'.emitted[i]
          /\ last'.emitted = <<>> =>
                TookAction(e, "error") \/ m_tkCurr'.m_tt = "end"
          /\ \A i \in DOMAIN e :
                IsYield(e[i]) =>
                   IF e[i].acc # <<>>
                   THEN i = n /\ Len(last'.emitted) = 1
                   ELSE i < n \/ m_itAllCurr' = Len(m_sAll)

C24_FinalizeOncePerToken == [][C24_OncePerToken]_vars

\* After "\n\na": both line ends are yield actions met with an empty accumulator,
\* and the call goes on to finalize `a` at the end of the input.
C24_Witness ==
   /\ pc = "iter"
   /\ m_sAll = Enc(<<"\n", "\n", "a">>)
   /\ Len(last.evos) = 3
   /\ IsYield(last.evos[1]) /\ last.evos[1].acc = <<>>
   /\ IsYield(last.evos[2]) /\ last.evos[2].acc = <<>>
   /\ last.emitted = <<token(Enc(<<"a">>), "identifier")>>

(***************************************************************************)
(* C25: in every state other than an open string literal (sl), an open     *)
(* character literal (cl) and the backslash state of the literals (bsac),  *)
(* a character of class inval (a control character, `$`, `@`) selects the  *)
(* error action: the table says so in every such row, and a call that      *)
(* meets such a character in such a state takes the error action on it and *)
(* returns.                                                                *)
(***************************************************************************)
LiteralBodyStates == {"sl", "cl", "bsac"}

C25_EveryRow ==
   /\ \A ch \in Range(Enc(<<"$", "@", "SOH">>)) : chtOf(ch) = "inval"
   /\ \A s \in States \ LiteralBodyStates : Evo[s]["inval"].actionNext = "error"

C25_InvalidIsError ==
   /\ calls = 0 => C25_EveryRow
   /\ \A i \in DOMAIN last.evos :
         (last.evos[i].cht = "inval" /\ last.evos[i].state \notin LiteralBodyStates) =>
            /\ last.evos[i].evo.actionNext = "error"
            /\ i = Len(last.evos)
            /\ errored

\* `$` after an identifier.
C25_Witness ==
   /\ pc = "iter"
   /\ m_sAll = Enc(<<"a", "$">>)
   /\ Len(last.evos) = 2
   /\ last.evos[2].state = "id" /\ last.evos[2].ch = CodePoint["$"]
   /\ last.evos[2].cht = "inval"

(***************************************************************************)
(* C26: inside a string literal, a character literal, a block comment and  *)
(* a line comment, a character of class inval is accumulated into the      *)
(* token as any other character of the body is, and never selects the      *)
(* error action.                                                           *)
(***************************************************************************)
C26_Accumulated(e) ==
   /\ e.evo.actionNext = "accumulate"
   /\ e.evo.stateNext = (IF e.state = "cmms" THEN "cmm" ELSE e.state)

C26_InvalidInBody(bodies) ==
   \A i \in DOMAIN last.evos :
      (last.evos[i].cht = "inval" /\ last.evos[i].state \in bodies) =>
         C26_Accumulated(last.evos[i]) /\ ~TookAction(last.evos, "error")

C26_InvalidIsBodyText == C26_InvalidInBody({"sl", "cl", "cmm", "cmms", "cms"})

(***************************************************************************)
(* C27: wherever a backslash leads into a backslash state (bksl or bsac),  *)
(* consuming it saves the current state with a push, so that every pop     *)
(* restores a state saved by a push earlier in the same call of operator++ *)
(* and never reads a slot that was not written.                            *)
(***************************************************************************)
IsPop(e) == e.evo.actionNext \in {"pop_state", "pop_state_and_accumulate_backslash"}

C27_BackslashPushes(e) ==
   (e.cht = "bksl" /\ e.evo.stateNext \in {"bksl", "bsac"} /\ ~IsPop(e)) =>
      e.evo.actionNext = "push_state"

C27_PopReadsPushed(evos, i) ==
   IsPop(evos[i]) =>
      /\ evos[i].pushed # Uninitialized
      /\ \E j \in 1..(i - 1) :
            /\ evos[j].evo.actionNext = "push_state"
            /\ evos[j].state = evos[i].pushed

C27_PopRestoresPushed ==
   \A i \in DOMAIN last.evos :
      C27_BackslashPushes(last.evos[i]) /\ C27_PopReadsPushed(last.evos, i)

(***************************************************************************)
(* C28: a backslash followed by a character other than end-of-line inside  *)
(* a string or character literal adds that backslash and that character to *)
(* the token text, each once, and the tokenizer goes on in the state of    *)
(* the literal; a literal holding an escape (as an escaped double quote in *)
(* a string literal) is yielded as one token of the literal's type whose   *)
(* text is the source text.                                                *)
(***************************************************************************)
C28_EscapeIsBodyText(evos, i) ==
   (/\ evos[i].state \in {"sl", "cl"}
    /\ evos[i].cht = "bksl"
    /\ i + 2 <= Len(evos)
    /\ evos[i + 1].cht # "eol") =>
      /\ evos[i + 2].acc = evos[i].acc \o <<evos[i].ch, evos[i + 1].ch>>
      /\ evos[i + 2].state = evos[i].state

C28_LiteralIsOneToken ==
   (AtEnd /\ m_sAll \in EscapeInputs) =>
      yielded = <<token(m_sAll, IF m_sAll[1] = CodePoint["\""]
                                THEN "stringlit" ELSE "charlit")>>

C28_EscapeInLiteral ==
   /\ \A i \in DOMAIN last.evos : C28_EscapeIsBodyText(last.evos, i)
   /\ C28_LiteralIsOneToken

(***************************************************************************)
(* C29: one slot is enough for the saved state.  Every push is taken on a  *)
(* backslash and leads to bksl, and neither backslash state (bksl, bsac)   *)
(* has a push in its row; so the evolution that follows a push is a pop or *)
(* the error action, unless the input ends there, and no second push is    *)
(* taken before it.                                                        *)
(***************************************************************************)
IsPush(e) == e.evo.actionNext = "push_state"

C29_NoPushWhilePending ==
   /\ \A s \in States : \A c \in CharTypes :
         Evo[s][c].actionNext = "push_state" =>
            c = "bksl" /\ Evo[s][c].stateNext = "bksl"
   /\ \A s \in {"bksl", "bsac"} : \A c \in CharTypes :
         Evo[s][c].actionNext # "push_state"

C29_OneSlot ==
   /\ calls = 0 => C29_NoPushWhilePending
   /\ \A i \in DOMAIN last.evos :
         IsPush(last.evos[i]) =>
            IF i = Len(last.evos)
            THEN m_itAllCurr = Len(m_sAll) /\ m_stateCurr = "bksl"
            ELSE /\ last.evos[i + 1].state = "bksl"
                 /\ IsPop(last.evos[i + 1]) \/ last.evos[i + 1].evo.actionNext = "error"
                 /\ last.evos[i + 1].pushed = last.evos[i].state

\* The push on the backslash of "fo\<eol>o" and the pop on the end-of-line after it.
C29_Witness ==
   /\ pc = "iter"
   /\ m_sAll = Enc(<<"f", "o", "\\", "\n", "o">>)
   /\ \E i \in DOMAIN last.evos :
         /\ IsPush(last.evos[i])
         /\ i < Len(last.evos)
         /\ IsPop(last.evos[i + 1])

(***************************************************************************)
(* C30: each of the operators -- ++ -> ->* .* :: && || ^^ << >> is yielded *)
(* as one token of the type of that operator, whether it stands alone,     *)
(* after an identifier, or before an identifier or a blank, and not as the *)
(* tokens of its characters.                                               *)
(***************************************************************************)
C30_Around(s) ==
   IF s = <<>> THEN <<>>
   ELSE <<token(s, IF s = Enc(<<" ">>) THEN "whitesp" ELSE "identifier")>>

C30_MultiCharOperators ==
   (AtEnd /\ m_sAll \in MultiCharOperatorInputs) =>
      \A l \in OperatorLeft, o \in MultiCharOperators, r \in OperatorRight :
         m_sAll = l \o o[1] \o r =>
            yielded = C30_Around(l) \o <<token(o[1], o[2])>> \o C30_Around(r)

C30_Witness ==
   /\ AtEnd
   /\ m_sAll = Enc(<<"a", "-", ">", "*", "a">>)
   /\ yielded = <<token(Enc(<<"a">>), "identifier"),
                  token(Enc(<<"-", ">", "*">>), "op_ptr_to_member_deref_ptr"),
                  token(Enc(<<"a">>), "identifier")>>

(***************************************************************************)
(* C31: the error action has no effect on tokens.  The evolution that      *)
(* takes it is the last one of its call; the call finalizes nothing and    *)
(* returns with the current token it started with, so that the caller sees *)
(* the token yielded before once more; the accumulator is what it was when *)
(* the offending character was met, and the state is whsp.                 *)
(***************************************************************************)
C31_ErrorStep ==
   (IsCall /\ TookAction(last'.evos, "error")) =>
      LET n == Len(last'.evos)
      IN  /\ last'.evos[n].evo.actionNext = "error"
          /\ \A i \in 1..(n - 1) : last'.evos[i].evo.actionNext # "error"
          /\ last'.emitted = <<>>
          /\ m_tkCurr' = m_tkCurr
          /\ m_tkNext'.m_s = last'.evos[n].acc
          /\ m_tkNext'.m_tt = m_tkNext.m_tt
          /\ m_stateCurr' = "whsp"
          /\ m_itAllCurr' = m_itAllCurr + n

IsBlankText(s) == \A k \in DOMAIN s : chtOf(s[k]) = "whsp"

C32_WhitespaceTokens ==
   \A i \in DOMAIN yielded :
      yielded[i].m_tt = "whitesp" => IsBlankText(yielded[i].m_s)

(***************************************************************************)
(* C33: every yielded token of type stringlit has a text that begins with  *)
(* a double quote, and every yielded token of type charlit has a text that *)
(* begins with a single quote.                                             *)
(***************************************************************************)
C33_LiteralsStartWithQuote ==
   \A i \in DOMAIN yielded :
      /\ yielded[i].m_tt = "stringlit" => yielded[i].m_s[1] = CodePoint["\""]
      /\ yielded[i].m_tt = "charlit" => yielded[i].m_s[1] = CodePoint["'"]

(***************************************************************************)
(* C34: every yielded token of type minus has the text `-`; a `+` that     *)
(* starts a new token is never typed minus, whatever token precedes it.    *)
(***************************************************************************)
C34_MinusIsMinus ==
   \A i \in DOMAIN yielded :
      yielded[i].m_tt = "minus" => yielded[i].m_s = Enc(<<"-">>)

(***************************************************************************)
(* C35: every token with the type of a compound assignment or of a         *)
(* relational operator with `=` has the spelling of that operator as its   *)
(* text (a token of type op_bit_or_assign has the text `|=`), and `||=` is *)
(* tokenized as `&&=` is: the logical operator, then an assign token.      *)
(***************************************************************************)
C35_SpelledAsTyped ==
   \A i \in DOMAIN yielded : \A o \in CompoundAssignments :
      yielded[i].m_tt = o[2] => yielded[i].m_s = o[1]

C35_LogicalThenAssign ==
   /\ (AtEnd /\ m_sAll = Enc(<<"&", "&", "=">>)) =>
         yielded = <<token(Enc(<<"&", "&">>), "op_log_and"), token(Enc(<<"=">>), "assign")>>
   /\ (AtEnd /\ m_sAll = Enc(<<"|", "|", "=">>)) =>
         yielded = <<token(Enc(<<"|", "|">>), "op_log_or"), token(Enc(<<"=">>), "assign")>>

C35_CompoundAssignmentText == C35_SpelledAsTyped /\ C35_LogicalThenAssign

(***************************************************************************)
(* C36: whenever get_comment_token_type runs, that is for every token      *)
(* finalized in the state of a line comment (cms) or of a closed block     *)
(* comment (cmmz), the text has at least three characters, so that the     *)
(* third character it looks at is a character of the text.                 *)
(***************************************************************************)
C36_ThirdCharacterExists ==
   IsCall => \A i \in DOMAIN last'.emitted :
                last'.finalizedIn[i] \in {"cms", "cmmz"} => Len(last'.emitted[i].m_s) >= 3

C36_CommentClassifierInBounds == [][C36_ThirdCharacterExists]_vars

(***************************************************************************)
(* C37: character conservation.  When a pass that took no other action     *)
(* than accumulate and yield_and_accumulate has reached the end state, the *)
(* texts of the yielded tokens, concatenated in order, are the buffer: no  *)
(* character is dropped, duplicated or moved.                              *)
(***************************************************************************)
C37_Conservation ==
   (AtEnd /\ taken \subseteq {"accumulate", "yield_and_accumulate"}) =>
      Concat(yielded) = m_sAll

C37_Witness ==
   /\ AtEnd
   /\ m_sAll = Enc(<<"a", "a", " ", "=">>)
   /\ taken = {"accumulate", "yield_and_accumulate"}
   /\ Len(yielded) = 3
   /\ Concat(yielded) = m_sAll

(***************************************************************************)
(* C38 (as claimed): every yielded token of type comment or document whose *)
(* text starts with `/*` has a text that ends with `*/`; what follows the  *)
(* closing `*/` is never part of the comment token.                        *)
(***************************************************************************)
StartsBlockComment(tk) ==
   /\ tk.m_tt \in {"comment", "document"}
   /\ Len(tk.m_s) >= 2
   /\ SubSeq(tk.m_s, 1, 2) = Enc(<<"/", "*">>)

C38_EndsWithCloser ==
   \A i \in DOMAIN yielded :
      StartsBlockComment(yielded[i]) =>
         SubSeq(yielded[i].m_s, Len(yielded[i].m_s) - 1, Len(yielded[i].m_s)) = Enc(<<"*", "/">>)

(***************************************************************************)
(* C38 (amended): such a token is the block comment through its closing    *)
(* `*/` followed by the whitespace, if any, that is written right after    *)
(* the `*/` on the same line: the row of cmmz accumulates whitespace.  The *)
(* first character that is not whitespace ends the token.                  *)
(***************************************************************************)
C38_CommentThenBlanks(s) ==
   \E k \in 4..Len(s) :
      IsBlockComment(SubSeq(s, 1, k)) /\ IsBlankText(SubSeq(s, k + 1, Len(s)))

C38_TrailingBlanksKept ==
   (AtEnd /\ m_sAll \in CommentThenInputs) =>
      \A c \in ClosedComments, w \in Blanks \cup {<<>>}, t \in AfterComment :
         m_sAll = c \o w \o t =>
            /\ yielded # <<>>
            /\ yielded[1] = token(c \o w, CommentType(c))

C38_CommentWithTrailingBlanks ==
   /\ \A i \in DOMAIN yielded :
         StartsBlockComment(yielded[i]) => C38_CommentThenBlanks(yielded[i].m_s)
   /\ C38_TrailingBlanksKept

C38_Witness ==
   /\ AtEnd
   /\ m_sAll = Enc(<<"/", "*", "a", "*", "/", " ", " ", "a">>)
   /\ yielded = <<token(Enc(<<"/", "*", "a", "*", "/", " ", " ">>), "comment"),
                  token(Enc(<<"a">>), "identifier")>>

(***************************************************************************)
(* C39: an end-of-line character is appended to the accumulator only in    *)
(* the states of an open string literal (sl), an open character literal    *)
(* (cl) and an open block comment (cmm, cmms).  In every other state the   *)
(* action it selects is yield_and_ignore, pop_state or error, none of      *)
(* which adds the character to a text.                                     *)
(***************************************************************************)
EolIsTextIn == {"sl", "cl", "cmm", "cmms"}

Accumulates(a) ==
   a \in {"accumulate", "yield_and_accumulate", "pop_state_and_accumulate_backslash"}

C39_EolColumn ==
   \A s \in States :
      IF s \in EolIsTextIn
      THEN Evo[s]["eol"].actionNext = "accumulate"
      ELSE Evo[s]["eol"].actionNext \in {"yield_and_ignore", "pop_state", "error"}

C39_EolOnlyInBodies ==
   /\ calls = 0 => C39_EolColumn
   /\ chtOf(CodePoint["\n"]) = "eol"
   /\ \A i \in DOMAIN last.evos :
         (last.evos[i].cht = "eol" /\ Accumulates(last.evos[i].evo.actionNext)) =>
            last.evos[i].state \in EolIsTextIn
   /\ \A i \in DOMAIN yielded :
         (CodePoint["\n"] \in Range(yielded[i].m_s)) =>
            \E k \in DOMAIN m_sAll :
               /\ m_sAll[k] = CodePoint["\n"]
               /\ \E j \in 1..(k - 1) : m_sAll[j] \in Range(Enc(<<"\"", "'", "*">>))

\* The end-of-line inside the open block comment "/*<eol>" is part of its text.
C39_Witness ==
   /\ pc = "iter"
   /\ m_sAll = Enc(<<"/", "*", "\n">>)
   /\ Len(last.evos) = 3
   /\ last.evos[3].state = "cmm" /\ last.evos[3].cht = "eol"
   /\ yielded = <<token(m_sAll, "error")>>

(***************************************************************************)
(* C40: when a buffer without a backslash ends inside an open string       *)
(* literal, an open character literal or a block comment that is not       *)
(* closed, the pending text is yielded as one last token of type error,    *)
(* after the tokens of what precedes it, and the call after that one       *)
(* gives the end marker.                                                   *)
(***************************************************************************)
C40_LastTokenIsError(opens) ==
   \A p \in BeforeOpen, u \in opens :
      (AtEnd /\ m_sAll = p[1] \o u) =>
         /\ yielded = p[2] \o <<token(u, "error")>>
         /\ Len(seen) = Len(yielded) + 1
         /\ seen[Len(seen) - 1].tk = token(u, "error")
         /\ seen[Len(seen)].tk.m_tt = "end"

C40_UnterminatedIsError ==
   C40_LastTokenIsError(OpenLiterals \cup OpenComments \cup OpenCommentsInError)
====
